---------------------------- MODULE Spec2Model ----------------------------
(***************************************************************************)
(* Remote query execution of magnus-ads: Api.executeQuery (submit / poll / *)
(* cancel over HTTP), QueryRunner (one execution and its result) and       *)
(* QueryProvider (the registry of active queries per owner URI and the     *)
(* notifications sent to the host).                                        *)
(*                                                                         *)
(* JavaScript runs one task at a time: a handler runs until its next await *)
(* on network I/O.  Each action below is one such task: a host call, a     *)
(* timer callback, or the arrival of an HTTP response together with the    *)
(* promise continuations it resumes (executeQuery, then                    *)
(* QueryRunner.execute, then the runQuery callback).                       *)
(***************************************************************************)
EXTENDS Integers, Sequences, FiniteSets, TLC

\* ------------------------------------------------------------------ bounds
MaxPolls == 2        \* status polls per execution
MaxMsgs == 2         \* messages carried by one response
MaxCancels == 2      \* cancel() calls per runner, cancelQuery calls per URI
MaxIndex == 2        \* result-set index asked for
MaxCalls == 4        \* direct calls made to one serializer
MaxRowArg == 3       \* magnitude of startRow and count asked for

\* The QueryRunner objects, in the order `new QueryRunner` yields them.
Handles == {"r1", "r2"}
Keys == {"uriA", "uriB"}

NoKey == "noKey"
NoHandle == "noRunner"
NoId == ""
NoResultSets == [present |-> FALSE, sets |-> <<>>]
NoResult == [identifier |-> NoId, isComplete |-> FALSE, messages |-> <<>>,
             resultSets |-> NoResultSets]
ResultSets(s) == [present |-> TRUE, sets |-> s]

\* ------------------------------------------------------- server responses
\* Result sets as the server returns them (types.ts QueryResultSet).
Column(name, type) == [name |-> name, type |-> type]

\* The n messages of the idx-th response of an execution, in server order.
Messages(idx, n) == [i \in 1..n |-> <<idx, i>>]

\* The identifier the server assigns to the execution of runner h.
ServerIdentifier(h) == IF h = "r1" THEN "id1" ELSE "id2"

Progress(h, idx, complete, n, rs) ==
    [identifier |-> ServerIdentifier(h), isComplete |-> complete,
     messages |-> Messages(idx, n),
     resultSets |-> IF complete THEN rs ELSE NoResultSets]

\* Bodies of a non-200 response: text that is no JSON (an empty body, an
\* HTML error page), a JSON value that is no object, or a JSON object with
\* or without the fields exceptionMessage and message ("" for an absent or
\* empty field).
Body(obj, exc, msg) ==
    [json |-> TRUE, object |-> obj, exceptionMessage |-> exc, message |-> msg]
NotJson ==
    [json |-> FALSE, object |-> FALSE, exceptionMessage |-> "", message |-> ""]
MessageBody == Body(TRUE, "", "server message")

ErrorBodies ==
    {NotJson, Body(FALSE, "", ""), Body(TRUE, "", ""), MessageBody,
     Body(TRUE, "server exception", ""),
     Body(TRUE, "server exception", "server message")}

NoFailure == [text |-> "", at |-> "never"]

VARIABLES
    pc,             \* per runner: where execute()/executeQuery() stands
    owner,          \* per runner: the ownerUri of the runQuery that made it
    cancelled,      \* QueryRunner.cancelled
    signalAborted,  \* QueryRunner.abortController.signal.aborted
    aborted,        \* executeQuery's local `aborted`
    identifier,     \* executeQuery's local `identifier`
    result,         \* QueryRunner.result
    failure,        \* the error execute() rejected with, and where
    failedWith,     \* the response that made execute() reject
    outstanding,    \* submit/status requests in flight, per runner
    pollsIssued,    \* status requests issued, per runner
    recvLog,        \* the 200 responses executeQuery received, per runner
    callbackLog,    \* the messages handed to messageCallback, per runner
    cancelSent,     \* DELETE Sql/Cancel requests issued, per runner
    deleteInFlight, \* of these, those not yet answered
    cancelCalls,    \* cancel() calls made, per runner
    cancelledAt,    \* pc of the runner when cancel() was first called
    activeQueries,  \* QueryProvider.activeQueries
    pendingRuns,    \* runClientRequest callbacks of runQuery not yet run
    cancelQueryCalls, \* cancelQuery calls made, per URI
    events          \* notifications fired to the host, per URI

runnerVars == <<pc, owner, cancelled, signalAborted, aborted, identifier,
                result, failure, failedWith, outstanding, pollsIssued, recvLog,
                callbackLog, cancelSent, deleteInFlight, cancelCalls,
                cancelledAt>>

providerVars == <<activeQueries, pendingRuns, cancelQueryCalls, events>>

\* ConnectionProvider and the Api.connect calls it awaits.
Conns == {"c1", "c2"}
ConnectionKeys == {"uriA", "uriB", "uriC"}
NoConn == "noConnection"
NoSession == [created |-> FALSE, by |-> NoConn]
NoResponse == [rejected |-> FALSE, status |-> 0]

VARIABLES
    connections,     \* ConnectionProvider.connections: URI -> Connection object
    connPc,          \* per connect() call: where it and Api.connect stand
    connUri,         \* per connect() call: its connectionUri argument
    connCancelled,   \* Connection.cancelled of the object the call created
    connApi,         \* Connection.api of the object the call created
    loginResponse,   \* Api.connect's local `response`
    connectResponse, \* Api.connect's local `connectResponse`
    connError,       \* the error caught by connect()
    connEvents       \* onConnectionComplete notifications, in firing order

connVars == <<connections, connPc, connUri, connCancelled, connApi,
              loginResponse, connectResponse, connError, connEvents>>

\* The host's row requests to a QueryRunner.
VARIABLES
    request,         \* the last getResultSet / getQueryResultSet call
    returned         \* what that call returned or threw

rowVars == <<request, returned>>

\* The host the extension runs on.
VARIABLES
    hostZone         \* the time zone Date's local getters use

envVars == <<hostZone>>

\* Direct calls of the functions of utils.ts.
VARIABLES
    call,            \* the last call: function and arguments
    output           \* what it returned

utilVars == <<call, output>>

\* QueryProvider.saveResults, the serializer it creates and the file.
VARIABLES
    sv,              \* the saveResults call: position, request, outcome
    ser              \* the serializer's fields, its pending method, the file

exportVars == <<sv, ser>>

\* What the QueryRunner and QueryProvider handlers never touch.
outsideQuery == <<connVars, rowVars, envVars, utilVars, exportVars>>

\* What the ConnectionProvider handlers never touch.
outsideConnections ==
    <<runnerVars, providerVars, rowVars, envVars, utilVars, exportVars>>

\* What the QueryRunner getters never touch.
outsideRows ==
    <<runnerVars, providerVars, connVars, envVars, utilVars, exportVars>>

\* The runner fields the getters do not even read.
unreadByGetters == <<pc, owner, cancelled, signalAborted, aborted, identifier,
                     failure, failedWith, outstanding, pollsIssued, recvLog,
                     callbackLog, cancelSent, deleteInFlight, cancelCalls,
                     cancelledAt>>

\* What the functions of utils.ts never touch.
outsideUtils ==
    <<runnerVars, providerVars, connVars, rowVars, envVars, exportVars>>

\* What saveResults and the serializers never touch.
outsideExport ==
    <<runnerVars, providerVars, connVars, rowVars, envVars, utilVars>>

vars == <<runnerVars, providerVars, connVars, rowVars, envVars, utilVars,
          exportVars>>


\* ---------------------------------------------------------------- helpers
\* The runner the next `new QueryRunner` yields.
FreeHandles == {h \in Handles : pc[h] = "none"}
NextHandle == IF "r1" \in FreeHandles THEN "r1" ELSE "r2"

\* ------------------------------------------------------------------ api.ts
\* getDefaultError: the text of the error thrown for a non-200 response.
getDefaultError(data) ==
    IF ~data.object THEN "Unable to complete request."
    ELSE IF data.exceptionMessage # "" THEN data.exceptionMessage
    ELSE IF data.message # "" THEN data.message
    ELSE "Request failed but did not provide a reason."

\* `throw getDefaultError(jsonParse(await result.buffer()))`: JSON.parse
\* throws its own SyntaxError for a body that is no JSON.
ThrownForBody(body) ==
    IF ~body.json THEN "Unexpected token in JSON" ELSE getDefaultError(body)

\* Mutant: a failed request leaves executeQuery where it was.
FailureState_Stays(at) == at

\* A rejected fetch or a `throw` leaves executeQuery: execute() rejects.
FailureState(at) == "failed"

\* Mutant: the loop polls again whatever the progress says.
ShouldPoll_Always(progress) == TRUE

\* The loop condition of executeQuery: poll again while not complete.
ShouldPoll(progress) == ~progress.isComplete

\* Mutant: the messages of a progress are delivered last first.
DeliverMessages_Reversed(log, progress) ==
    log \o [i \in 1..Len(progress.messages) |->
              progress.messages[Len(progress.messages) + 1 - i]]

\* The for loop of executeQuery: every message of the progress, in order.
DeliverMessages(log, progress) == log \o progress.messages

\* `await fetch(...)`: the continuation runs when the one request it waits
\* for is answered.
AwaitResponse(n) == n - 1

\* Mutant: the loop sends a status request without awaiting the one before.
IssuePoll_Twice(n) == n + 2

\* `fetch(url, {method: "get"})` of the loop: one more status request.
IssuePoll(n) == n + 1

\* Mutant: the listener sends the DELETE only while no identifier is known.
SendsCancel_Inverted(id) == id = NoId

\* The abort listener's test `if (identifier)`.
SendsCancel(id) == id # NoId

\* ---------------------------------------------------------- queryRunner.ts
\* Mutant: every call of abort() dispatches the abort event again.
DispatchesAbort_Always(alreadyAborted) == TRUE

\* abortController.abort(): the abort event is dispatched on the first call.
DispatchesAbort(alreadyAborted) == ~alreadyAborted

\* The listener executeQuery registered is there once execute() was called.
ListenerRegistered(h) == pc[h] \notin {"none", "new"}

\* What a getter of QueryRunner does: it returns a value or throws.
Returns(v) == [ok |-> TRUE, error |-> "", value |-> v]
Throws(text) == [ok |-> FALSE, error |-> text, value |-> <<>>]

\* QueryRunner.getColumns.
getColumns(resultSetColumns) ==
    [i \in 1..Len(resultSetColumns) |->
        [columnName |-> resultSetColumns[i].name]]

\* Mutant: summary ids count from one.
SummaryId_FromOne(i) == i

\* summaryId++, for the i-th result set (counted from one).
SummaryId(i) == i - 1

\* QueryRunner.getResultSetSummaries, of a runner whose result is res.
getResultSetSummaries(res) ==
    IF res = NoResult THEN Throws("Query has not completed.")
    ELSE IF ~res.resultSets.present THEN Returns(<<>>)
    ELSE Returns([i \in 1..Len(res.resultSets.sets) |->
                    [id |-> SummaryId(i), batchId |-> 0,
                     rowCount |-> Len(res.resultSets.sets[i].rows),
                     columnInfo |-> getColumns(res.resultSets.sets[i].columns),
                     complete |-> TRUE]])

\* QueryRunner.getMessages.
getMessages(res) ==
    IF res = NoResult THEN Throws("Query has not completed.")
    ELSE Returns(res.messages)

\* The DELETE request of the abort listener.
CancelRequest(id) ==
    [method |-> "delete", path |-> <<"Sql/Cancel", id>>, cookie |-> "authCookie"]

\* QueryRunner.cancel() on runner h: the flag, then abort() and with it the
\* listener of executeQuery, which sends the DELETE without awaiting it.
CancelRunner(h) ==
    LET fires == DispatchesAbort(signalAborted[h]) /\ ListenerRegistered(h)
        sends == fires /\ SendsCancel(identifier[h])
    IN  /\ cancelled' = [cancelled EXCEPT ![h] = TRUE]
        /\ signalAborted' = [signalAborted EXCEPT ![h] = TRUE]
        /\ aborted' = [aborted EXCEPT ![h] = @ \/ fires]
        /\ cancelSent' =
              [cancelSent EXCEPT
                  ![h] = IF sends THEN Append(@, CancelRequest(identifier[h]))
                         ELSE @]
        /\ deleteInFlight' =
              [deleteInFlight EXCEPT ![h] = IF sends THEN @ + 1 ELSE @]
        /\ cancelCalls' = [cancelCalls EXCEPT ![h] = @ + 1]
        /\ cancelledAt' =
              [cancelledAt EXCEPT ![h] = IF cancelCalls[h] = 0 THEN pc[h] ELSE @]

\* QueryRunner.execute -> Api.executeQuery up to its first await: the abort
\* listener is registered and the submit request is sent.
StartExecute(h) ==
    /\ pc' = [pc EXCEPT ![h] = "submit"]
    /\ outstanding' = [outstanding EXCEPT ![h] = @ + 1]

\* -------------------------------------------------------- queryProvider.ts
MessageEvent(h, isError, text) ==
    [type |-> "message", runner |-> h, isError |-> isError, message |-> text]

\* Mutant: the result sets are announced after batch-complete.
CompletionEvents_Late(h, res, isCancelled) ==
    IF isCancelled THEN <<>>
    ELSE LET msg(m) == MessageEvent(h, FALSE, m)
             avail(s) == [type |-> "resultSetAvailable", runner |-> h,
                          id |-> s.id, rowCount |-> s.rowCount]
             messages == getMessages(res).value
             summaries == getResultSetSummaries(res).value
         IN  [i \in 1..Len(messages) |-> msg(messages[i])]
             \o << [type |-> "batchComplete", runner |-> h, hasError |-> FALSE] >>
             \o [i \in 1..Len(summaries) |-> avail(summaries[i])]
             \o << [type |-> "queryComplete", runner |-> h, batches |-> 1] >>

\* runQuery after `await query.execute()` returned normally.
CompletionEvents(h, res, isCancelled) ==
    IF isCancelled THEN <<>>
    ELSE LET msg(m) == MessageEvent(h, FALSE, m)
             avail(s) == [type |-> "resultSetAvailable", runner |-> h,
                          id |-> s.id, rowCount |-> s.rowCount]
             messages == getMessages(res).value
             summaries == getResultSetSummaries(res).value
         IN  [i \in 1..Len(messages) |-> msg(messages[i])]
             \o [i \in 1..Len(summaries) |-> avail(summaries[i])]
             \o << [type |-> "batchComplete", runner |-> h, hasError |-> FALSE],
                   [type |-> "queryComplete", runner |-> h, batches |-> 1] >>

\* Mutant: the catch block reports the failure as an ordinary message of a
\* batch without error.
FailureEvents_Plain(h, text) ==
    << MessageEvent(h, FALSE, text),
       [type |-> "batchComplete", runner |-> h, hasError |-> FALSE],
       [type |-> "queryComplete", runner |-> h, batches |-> 1] >>

\* runQuery's catch block and the notifications after it.
FailureEvents(h, text) ==
    << MessageEvent(h, TRUE, text),
       [type |-> "batchComplete", runner |-> h, hasError |-> TRUE],
       [type |-> "queryComplete", runner |-> h, batches |-> 1] >>

Fire(k, evs) ==
    events' = IF k = NoKey THEN events ELSE [events EXCEPT ![k] = @ \o evs]

\* ------------------------------------------------------------------ actions
\* An HTTP response (or transport failure) for the submit or status request
\* runner h awaits, and everything executeQuery, execute and the runQuery
\* callback do with it before the next await.
OnResponse(h, resp) ==
    /\ pc[h] \in {"submit", "poll"}
    /\ UNCHANGED outsideQuery
    /\ outstanding[h] > 0
    /\ IF resp.rejected \/ resp.status # 200
       THEN \* fetch rejected, or `throw getDefaultError(...)`
            LET text == IF resp.rejected
                        THEN "request failed"
                        ELSE ThrownForBody(resp.body)
            IN  /\ pc' = [pc EXCEPT ![h] = FailureState(@)]
                /\ failure' =
                      [failure EXCEPT ![h] = [text |-> text, at |-> pc[h]]]
                /\ failedWith' = [failedWith EXCEPT ![h] = resp]
                /\ outstanding' = [outstanding EXCEPT ![h] = AwaitResponse(@)]
                /\ Fire(owner[h], FailureEvents(h, text))
                /\ UNCHANGED <<identifier, result, pollsIssued, recvLog,
                               callbackLog>>
       ELSE LET progress == resp.progress
            IN  /\ recvLog' = [recvLog EXCEPT ![h] = Append(@, progress)]
                /\ identifier' =
                      [identifier EXCEPT
                          ![h] = IF pc[h] = "submit" THEN progress.identifier
                                 ELSE @]
                /\ IF ShouldPoll(progress)
                   THEN /\ pollsIssued[h] < MaxPolls
                        /\ callbackLog' =
                              [callbackLog EXCEPT
                                  ![h] = DeliverMessages(@, progress)]
                        /\ outstanding' =
                              [outstanding EXCEPT
                                  ![h] = IssuePoll(AwaitResponse(@))]
                        /\ pollsIssued' = [pollsIssued EXCEPT ![h] = @ + 1]
                        /\ pc' = [pc EXCEPT ![h] = "poll"]
                        /\ UNCHANGED <<result, failure, failedWith, events>>
                   ELSE /\ result' = [result EXCEPT ![h] = progress]
                        /\ pc' = [pc EXCEPT ![h] = "done"]
                        /\ outstanding' =
                              [outstanding EXCEPT ![h] = AwaitResponse(@)]
                        /\ Fire(owner[h],
                                CompletionEvents(h, progress, cancelled[h]))
                        /\ UNCHANGED <<failure, failedWith, callbackLog,
                                       pollsIssued>>
    /\ UNCHANGED <<owner, cancelled, signalAborted, aborted, cancelSent,
                   deleteInFlight, cancelCalls, cancelledAt, activeQueries,
                   pendingRuns, cancelQueryCalls>>

\* The responses a server may give to the request runner h awaits: a 200
\* with a progress, a non-200 with one of the bodies, or (if transport
\* failures are among the cases) no response at all.
Responses(h, lens, rss, bodies, transport) ==
    LET idx == Len(recvLog[h]) + 1
    IN  {[rejected |-> FALSE, status |-> 200,
          progress |-> Progress(h, idx, c, n, rs)] :
            <<c, n, rs>> \in ({FALSE} \X lens \X {NoResultSets})
                             \cup ({TRUE} \X lens \X rss)}
        \cup {[rejected |-> FALSE, status |-> 500, body |-> b] : b \in bodies}
        \cup (IF transport THEN {[rejected |-> TRUE]} ELSE {})

\* The answer to a DELETE Sql/Cancel request, success or failure: nothing
\* was attached to that fetch, so nothing but the request itself changes.
OnCancelResponse(h, ok) ==
    /\ deleteInFlight[h] > 0
    /\ UNCHANGED outsideQuery
    /\ deleteInFlight' = [deleteInFlight EXCEPT ![h] = @ - 1]
    /\ UNCHANGED <<pc, owner, cancelled, signalAborted, aborted, identifier,
                   result, failure, failedWith, outstanding, pollsIssued, recvLog,
                   callbackLog, cancelSent, cancelCalls, cancelledAt,
                   providerVars>>

\* A client of QueryRunner calls execute(messageCallback) on a new runner.
Execute(h) ==
    /\ pc[h] = "new"
    /\ UNCHANGED outsideQuery
    /\ StartExecute(h)
    /\ UNCHANGED <<owner, cancelled, signalAborted, aborted, identifier,
                   result, failure, failedWith, pollsIssued, recvLog, callbackLog,
                   cancelSent, deleteInFlight, cancelCalls, cancelledAt,
                   providerVars>>

\* A client of QueryRunner calls cancel().
Cancel(h) ==
    /\ pc[h] # "none"
    /\ UNCHANGED outsideQuery
    /\ cancelCalls[h] < MaxCancels
    /\ CancelRunner(h)
    /\ UNCHANGED <<pc, owner, identifier, result, failure, failedWith, outstanding,
                   pollsIssued, recvLog, callbackLog, providerVars>>

\* QueryProvider.runQuery up to runClientRequest: the callback is scheduled.
RunQuery(k) ==
    /\ Cardinality(FreeHandles) > pendingRuns["uriA"] + pendingRuns["uriB"]
    /\ UNCHANGED outsideQuery
    /\ pendingRuns' = [pendingRuns EXCEPT ![k] = @ + 1]
    /\ UNCHANGED <<runnerVars, activeQueries, cancelQueryCalls, events>>

\* The callback runQuery scheduled: a new QueryRunner is registered for the
\* URI, batch-start is fired and execute() is called.
RunQueryCallback(k) ==
    /\ pendingRuns[k] > 0
    /\ UNCHANGED outsideQuery
    /\ FreeHandles # {}
    /\ LET h == NextHandle
       IN  /\ pendingRuns' = [pendingRuns EXCEPT ![k] = @ - 1]
           /\ activeQueries' = [activeQueries EXCEPT ![k] = h]
           /\ owner' = [owner EXCEPT ![h] = k]
           /\ Fire(k, << [type |-> "batchStart", runner |-> h] >>)
           /\ StartExecute(h)
    /\ UNCHANGED <<cancelled, signalAborted, aborted, identifier, result,
                   failure, failedWith, pollsIssued, recvLog, callbackLog,
                   cancelSent, deleteInFlight, cancelCalls, cancelledAt,
                   cancelQueryCalls>>

\* QueryProvider.cancelQuery.
CancelQuery(k) ==
    /\ cancelQueryCalls["uriA"] + cancelQueryCalls["uriB"] < MaxCancels
    /\ UNCHANGED outsideQuery
    /\ cancelQueryCalls' = [cancelQueryCalls EXCEPT ![k] = @ + 1]
    /\ IF activeQueries[k] # NoHandle
       THEN /\ CancelRunner(activeQueries[k])
            /\ activeQueries' = [activeQueries EXCEPT ![k] = NoHandle]
       ELSE UNCHANGED <<cancelled, signalAborted, aborted, cancelSent,
                        deleteInFlight, cancelCalls, cancelledAt,
                        activeQueries>>
    /\ Fire(k, << [type |-> "queryComplete", runner |-> NoHandle,
                   batches |-> 0] >>)
    /\ UNCHANGED <<pc, owner, identifier, result, failure, failedWith, outstanding,
                   pollsIssued, recvLog, callbackLog, pendingRuns>>

\* QueryProvider.disposeQuery.
DisposeQuery(k) ==
    /\ activeQueries' = [activeQueries EXCEPT ![k] = NoHandle]
    /\ UNCHANGED outsideQuery
    /\ UNCHANGED <<runnerVars, pendingRuns, cancelQueryCalls, events>>

\* ------------------------------------------------------- connections
\* new Api(hostname, authCookie, data), made by the connect() call c.
Session(c) == [created |-> TRUE, by |-> c]

LoginResponse(st, sc, rk) ==
    [rejected |-> FALSE, status |-> st, setCookie |-> sc, rock |-> rk]

\* The login responses: a rejected fetch, or a status with its set-cookie
\* header (present or not, holding a .ROCK= cookie or not).
LoginResponses ==
    {[rejected |-> TRUE, status |-> 0, setCookie |-> FALSE, rock |-> FALSE],
     LoginResponse(401, FALSE, FALSE), LoginResponse(500, FALSE, FALSE),
     LoginResponse(200, FALSE, FALSE), LoginResponse(200, TRUE, FALSE),
     LoginResponse(200, TRUE, TRUE), LoginResponse(204, FALSE, FALSE),
     LoginResponse(204, TRUE, TRUE)}

NegotiateResponse(st, js) == [rejected |-> FALSE, status |-> st, json |-> js]

\* The Sql/Connect responses: a rejected fetch, or a status with a body that
\* parses as JSON or does not.
NegotiateResponses ==
    {[rejected |-> TRUE, status |-> 0, json |-> FALSE],
     NegotiateResponse(200, TRUE), NegotiateResponse(200, FALSE),
     NegotiateResponse(204, TRUE), NegotiateResponse(500, FALSE)}

\* Mutant: a 401 is not told apart from the other login failures.
LoginError_Unclassified(resp) ==
    IF resp.rejected THEN "request failed"
    ELSE IF resp.status # 200 /\ resp.status # 204
         THEN "Unable to login, unknown error occurred."
    ELSE IF ~resp.setCookie THEN "Invalid response received from the server."
    ELSE IF ~resp.rock THEN "Invalid response received from the server."
    ELSE ""

\* The error Api.connect throws on the login response, "" if none.
LoginError(resp) ==
    IF resp.rejected THEN "request failed"
    ELSE IF resp.status = 401 THEN "Invalid username or password."
    ELSE IF resp.status # 200 /\ resp.status # 204
         THEN "Unable to login, unknown error occurred."
    ELSE IF ~resp.setCookie THEN "Invalid response received from the server."
    ELSE IF ~resp.rock THEN "Invalid response received from the server."
    ELSE ""

\* Mutant: every negotiate response that arrives is accepted.
NegotiateError_Lenient(resp) ==
    IF resp.rejected THEN "request failed"
    ELSE IF ~resp.json THEN "Unexpected token in JSON"
    ELSE ""

\* The error Api.connect throws on the Sql/Connect response, "" if none.
NegotiateError(resp) ==
    IF resp.rejected THEN "request failed"
    ELSE IF resp.status = 200
         THEN IF resp.json THEN "" ELSE "Unexpected token in JSON"
    ELSE "Unable to negotiate connection with the server."

FreeConns == {c \in Conns : connPc[c] = "none"}
NextConn == IF "c1" \in FreeConns THEN "c1" ELSE "c2"

getConnectionApi(k) ==
    IF connections[k] = NoConn THEN NoSession ELSE connApi[connections[k]]

\* Mutant: the entry is left in the registry.
Unregister_Keeps(conns, k) == conns

\* delete this.connections[connectionUri]
Unregister(conns, k) == [conns EXCEPT ![k] = NoConn]

\* Mutant: the association is copied to newUri and kept under oldUri.
Rekey_Copies(conns, newUri, oldUri) ==
    [conns EXCEPT ![newUri] = conns[oldUri]]

\* delete this.connections[oldUri]; this.connections[newUri] = api
Rekey(conns, newUri, oldUri) ==
    [Unregister(conns, oldUri) EXCEPT ![newUri] = conns[oldUri]]

ConnectionEvent(k, text) == [ownerUri |-> k, errorMessage |-> text]

\* connect()'s catch block.
ConnectFails(c, text) ==
    /\ connPc' = [connPc EXCEPT ![c] = "failed"]
    /\ connError' = [connError EXCEPT ![c] = text]
    /\ connEvents' = Append(connEvents, ConnectionEvent(connUri[c], text))

\* connect() up to its await: the Connection object is registered and the
\* login request is issued.
Connect(k) ==
    /\ FreeConns # {}
    /\ LET c == NextConn
       IN  /\ connPc' = [connPc EXCEPT ![c] = "login"]
           /\ connUri' = [connUri EXCEPT ![c] = k]
           /\ connections' = [connections EXCEPT ![k] = c]
    /\ UNCHANGED <<connCancelled, connApi, loginResponse, connectResponse,
                   connError, connEvents>>
    /\ UNCHANGED outsideConnections

\* The login response arrives: Api.connect throws or issues Sql/Connect.
OnLoginResponse(c, resp) ==
    /\ connPc[c] = "login"
    /\ loginResponse' = [loginResponse EXCEPT ![c] = resp]
    /\ IF LoginError(resp) # ""
       THEN ConnectFails(c, LoginError(resp))
       ELSE /\ connPc' = [connPc EXCEPT ![c] = "negotiate"]
            /\ UNCHANGED <<connError, connEvents>>
    /\ UNCHANGED <<connections, connUri, connCancelled, connApi,
                   connectResponse>>
    /\ UNCHANGED outsideConnections

\* The Sql/Connect response arrives: Api.connect throws or returns the Api,
\* and connect() runs to its end.
OnNegotiateResponse(c, resp) ==
    /\ connPc[c] = "negotiate"
    /\ connectResponse' = [connectResponse EXCEPT ![c] = resp]
    /\ IF NegotiateError(resp) # ""
       THEN /\ ConnectFails(c, NegotiateError(resp))
            /\ UNCHANGED connApi
       ELSE IF connCancelled[c]
       THEN /\ connPc' = [connPc EXCEPT ![c] = "cancelled"]
            /\ UNCHANGED <<connApi, connError, connEvents>>
       ELSE /\ connPc' = [connPc EXCEPT ![c] = "connected"]
            /\ connApi' = [connApi EXCEPT ![c] = Session(c)]
            /\ connEvents' = Append(connEvents,
                                    ConnectionEvent(connUri[c], ""))
            /\ UNCHANGED connError
    /\ UNCHANGED <<connections, connUri, connCancelled, loginResponse>>
    /\ UNCHANGED outsideConnections

Disconnect(k) ==
    /\ connections' = IF connections[k] # NoConn
                      THEN Unregister(connections, k) ELSE connections
    /\ UNCHANGED <<connPc, connUri, connCancelled, connApi, loginResponse,
                   connectResponse, connError, connEvents>>
    /\ UNCHANGED outsideConnections

CancelConnect(k) ==
    /\ IF connections[k] # NoConn
       THEN /\ connCancelled' =
                  [connCancelled EXCEPT ![connections[k]] = TRUE]
            /\ connections' = Unregister(connections, k)
       ELSE UNCHANGED <<connCancelled, connections>>
    /\ UNCHANGED <<connPc, connUri, connApi, loginResponse, connectResponse,
                   connError, connEvents>>
    /\ UNCHANGED outsideConnections

RenameUri(newUri, oldUri) ==
    /\ connections' = IF connections[oldUri] = NoConn
                      THEN connections
                      ELSE Rekey(connections, newUri, oldUri)
    /\ UNCHANGED <<connPc, connUri, connCancelled, connApi, loginResponse,
                   connectResponse, connError, connEvents>>
    /\ UNCHANGED outsideConnections

InitConnections ==
    /\ connections = [k \in ConnectionKeys |-> NoConn]
    /\ connPc = [c \in Conns |-> "none"]
    /\ connUri = [c \in Conns |-> NoKey]
    /\ connCancelled = [c \in Conns |-> FALSE]
    /\ connApi = [c \in Conns |-> NoSession]
    /\ loginResponse = [c \in Conns |-> NoResponse]
    /\ connectResponse = [c \in Conns |-> NoResponse]
    /\ connError = [c \in Conns |-> ""]
    /\ connEvents = <<>>

\* ----------------------------------------------------------------- utils.ts
\* Dates are modelled over the days 2024-11-01 .. 2024-11-05; an instant is
\* its number of milliseconds after 2024-11-01T00:00:00Z.
WindowYear == 2024
WindowMonth == 11
Second == 1000
Minute == 60 * Second
Hour == 60 * Minute
Day == 24 * Hour

\* Host zones: one without offset, one with a fixed offset, and one whose
\* clocks go back an hour inside the window (2024-11-03T06:00:00Z).
HostZones == {"UTC", "Europe/Berlin", "America/New_York"}
FallBack == 2 * Day + 6 * Hour

\* The zone's offset from UTC at instant t.
Offset(zone, t) ==
    IF zone = "UTC" THEN 0
    ELSE IF zone = "Europe/Berlin" THEN Hour
    ELSE IF t < FallBack THEN -4 * Hour ELSE -5 * Hour

\* The instant of a local time; a local time that occurs twice is taken at
\* its first occurrence (ECMAScript UTC(t)).
LocalToUtc(zone, local) ==
    IF zone = "UTC" THEN local
    ELSE IF zone = "Europe/Berlin" THEN local - Hour
    ELSE IF local + 4 * Hour < FallBack THEN local + 4 * Hour
    ELSE local + 5 * Hour

\* A timestamp as the server writes it: ISO 8601 fields of November 2024,
\* with a trailing Z or without a zone.
NoStamp == [valid |-> FALSE, day |-> 0, hour |-> 0, minute |-> 0,
            second |-> 0, ms |-> 0, utc |-> FALSE]
Iso(d, h, mi, sec, ms, utc) ==
    [valid |-> TRUE, day |-> d, hour |-> h, minute |-> mi, second |-> sec,
     ms |-> ms, utc |-> utc]

Digits == <<"0", "1", "2", "3", "4", "5", "6", "7", "8", "9">>

\* Number.prototype.toString of a non-negative integer, as characters.
RECURSIVE DigitChars(_)
DigitChars(n) ==
    IF n < 10 THEN <<Digits[n + 1]>>
    ELSE DigitChars(n \div 10) \o <<Digits[(n % 10) + 1]>>

\* String.prototype.padStart(len, fill).
RECURSIVE PadStart(_, _, _)
PadStart(chars, len, fill) ==
    IF Len(chars) >= len THEN chars
    ELSE PadStart(<<fill>> \o chars, len, fill)

\* The string made of the characters.
RECURSIVE Join(_)
Join(chars) ==
    IF chars = <<>> THEN "" ELSE Head(chars) \o Join(Tail(chars))

\* String(value) of a number.
NumberText(n) ==
    IF n < 0 THEN "-" \o Join(DigitChars(-n)) ELSE Join(DigitChars(n))

Pad(n, len) == PadStart(DigitChars(n), len, "0")

\* The text of a timestamp.
IsoText(f) ==
    Join(Pad(WindowYear, 4) \o <<"-">> \o Pad(WindowMonth, 2) \o <<"-">>
         \o Pad(f.day, 2) \o <<"T">> \o Pad(f.hour, 2) \o <<":">>
         \o Pad(f.minute, 2) \o <<":">> \o Pad(f.second, 2) \o <<".">>
         \o Pad(f.ms, 3) \o (IF f.utc THEN <<"Z">> ELSE <<>>))

\* Raw cell values as the server's JSON gives them.
Null == [kind |-> "null", n |-> 0, s |-> "", iso |-> NoStamp]
Undef == [kind |-> "undefined", n |-> 0, s |-> "", iso |-> NoStamp]
Num(n) == [kind |-> "number", n |-> n, s |-> "", iso |-> NoStamp]
Str(s) == [kind |-> "string", n |-> 0, s |-> s, iso |-> NoStamp]
Bool(b) == [kind |-> "boolean", n |-> IF b THEN 1 ELSE 0, s |-> "",
            iso |-> NoStamp]
Stamp(f) == [kind |-> "string", n |-> 0, s |-> IsoText(f), iso |-> f]

IsNullish(value) == value.kind \in {"null", "undefined"}

\* String(value).
StringOf(value) ==
    IF value.kind = "number" THEN NumberText(value.n)
    ELSE IF value.kind = "boolean"
         THEN (IF value.n = 1 THEN "true" ELSE "false")
    ELSE value.s

Truthy(value) ==
    IF value.kind \in {"number", "boolean"} THEN value.n # 0
    ELSE value.s # ""

\* A Date object: its time value, or NaN.
InvalidDate == [valid |-> FALSE, time |-> 0]
DateAt(t) == [valid |-> TRUE, time |-> t]

LocalOfFields(d, h, mi, sec, ms) ==
    (d - 1) * Day + h * Hour + mi * Minute + sec * Second + ms

\* new Date(Date.parse(String(value))): a timestamp with Z is an instant,
\* one without a zone is a local time; other text is no date.
DateParse(zone, value) ==
    IF value.kind # "string" \/ ~value.iso.valid THEN InvalidDate
    ELSE LET f == value.iso
             local == LocalOfFields(f.day, f.hour, f.minute, f.second, f.ms)
         IN  DateAt(IF f.utc THEN local ELSE LocalToUtc(zone, local))

\* Date.prototype.getFullYear .. getMilliseconds, in the host's zone.
LocalTime(zone, date) == date.time + Offset(zone, date.time)
getFullYear(zone, date) == WindowYear
getMonth(zone, date) == WindowMonth - 1
getDate(zone, date) == (LocalTime(zone, date) \div Day) + 1
getHours(zone, date) == (LocalTime(zone, date) % Day) \div Hour
getMinutes(zone, date) == (LocalTime(zone, date) % Hour) \div Minute
getSeconds(zone, date) == (LocalTime(zone, date) % Minute) \div Second
getMilliseconds(zone, date) == LocalTime(zone, date) % Second

\* field.toString().padStart(len, "0"); the field of an invalid date is NaN.
DateField(date, n, len) ==
    IF date.valid THEN Pad(n, len) ELSE PadStart(<<"N", "a", "N">>, len, "0")

\* getDateDisplayFormat, as the characters of the string it returns.
getDateDisplayChars(zone, date) ==
    DateField(date, getFullYear(zone, date), 4) \o <<"-">>
    \o DateField(date, getMonth(zone, date) + 1, 2) \o <<"-">>
    \o DateField(date, getDate(zone, date), 2) \o <<" ">>
    \o DateField(date, getHours(zone, date), 2) \o <<":">>
    \o DateField(date, getMinutes(zone, date), 2) \o <<":">>
    \o DateField(date, getSeconds(zone, date), 2) \o <<".">>
    \o DateField(date, getMilliseconds(zone, date), 3)

getDateDisplayFormat(zone, date) == Join(getDateDisplayChars(zone, date))

DigitValue(c) == CHOOSE i \in 0..9 : Digits[i + 1] = c

\* The number a run of digits denotes.
RECURSIVE NumberOf(_)
NumberOf(chars) ==
    IF chars = <<>> THEN 0
    ELSE 10 * NumberOf(SubSeq(chars, 1, Len(chars) - 1))
         + DigitValue(chars[Len(chars)])

AllDigits(chars) == \A i \in 1..Len(chars) : \E d \in 1..10 : Digits[d] = chars[i]

\* Date.parse of text shaped YYYY-MM-DD HH:MM:SS.mmm: V8 reads it as a
\* local time; anything else of that length is no date.
DateParseDisplay(zone, chars) ==
    IF \/ Len(chars) # 23
       \/ ~AllDigits(SubSeq(chars, 1, 4) \o SubSeq(chars, 6, 7)
                     \o SubSeq(chars, 9, 10) \o SubSeq(chars, 12, 13)
                     \o SubSeq(chars, 15, 16) \o SubSeq(chars, 18, 19)
                     \o SubSeq(chars, 21, 23))
    THEN InvalidDate
    ELSE DateAt(LocalToUtc(zone,
                   LocalOfFields(NumberOf(SubSeq(chars, 9, 10)),
                                 NumberOf(SubSeq(chars, 12, 13)),
                                 NumberOf(SubSeq(chars, 15, 16)),
                                 NumberOf(SubSeq(chars, 18, 19)),
                                 NumberOf(SubSeq(chars, 21, 23)))))

\* Mutant: a missing value of a Boolean column is shown as "0".
NullText_Falsy(type) == IF type = "Boolean" THEN "0" ELSE "null"

NullText(type) == "null"

getCellDisplayValue(type, value) ==
    IF IsNullish(value) THEN NullText(type)
    ELSE IF type \in {"String", "Number", "ByteArray", "Unknown"}
         THEN StringOf(value)
    ELSE IF type = "Boolean" THEN (IF Truthy(value) THEN "1" ELSE "0")
    ELSE getDateDisplayFormat(hostZone, DateParse(hostZone, value))

\* ---------------------------------------------------------- row requests
\* Result sets of numbers: one row of one column, two rows of two.
RS1 == [columns |-> <<Column("c1", "Number")>>, rows |-> << <<Num(1)>> >>]
RS2 == [columns |-> <<Column("c1", "Number"), Column("c2", "Number")>>,
        rows |-> << <<Num(1), Num(2)>>, <<Num(3), Num(4)>> >>]

ResultSetChoices == {NoResultSets, ResultSets(<<RS1>>), ResultSets(<<RS1, RS2>>)}

\* Result sets with typed columns: three rows, and none.
Orders ==
    [columns |-> <<Column("id", "Number"), Column("note", "String"),
                   Column("paid", "Boolean"), Column("at", "DateTime")>>,
     rows |-> << <<Num(7), Str("a"), Bool(TRUE),
                   Stamp(Iso(3, 6, 30, 0, 7, TRUE))>>,
                 <<Num(12), Null, Bool(FALSE), Null>>,
                 <<Null, Str("b c"), Undef,
                   Stamp(Iso(2, 23, 0, 59, 123, FALSE))>> >>]
Empty == [columns |-> <<Column("id", "Number")>>, rows |-> <<>>]

RowResultChoices ==
    {NoResultSets, ResultSets(<<>>), ResultSets(<<Orders>>),
     ResultSets(<<Orders, Empty>>)}

\* Mutant: a missing value is shown with the text "null".
NullCell_Text ==
    [displayValue |-> "null", isNull |-> TRUE,
     invariantCultureDisplayValue |-> "null"]

\* The cell of a null or undefined raw value.
NullCell ==
    [displayValue |-> "", isNull |-> TRUE, invariantCultureDisplayValue |-> ""]

\* QueryRunner.getRow.
getRow(columns, row) ==
    [i \in 1..Len(row) |->
        IF IsNullish(row[i])
        THEN NullCell
        ELSE LET value == getCellDisplayValue(columns[i].type, row[i])
             IN  [displayValue |-> value, isNull |-> FALSE,
                  invariantCultureDisplayValue |-> value]]

\* Where Array.prototype.slice puts a relative index.
SliceIndex(len, i) ==
    IF i < 0 THEN (IF len + i < 0 THEN 0 ELSE len + i)
    ELSE IF i > len THEN len ELSE i

\* Array.prototype.slice(start, end).
Slice(rows, start, end) ==
    LET from == SliceIndex(Len(rows), start)
        to == SliceIndex(Len(rows), end)
    IN  IF from < to THEN SubSeq(rows, from + 1, to) ELSE <<>>

\* Reading a property of undefined.
ReadOfUndefined == "Cannot read properties of undefined (reading 'rows')"

\* QueryRunner.getResultSet.
getResultSet(res, resultSetIndex, startRow, count) ==
    IF res = NoResult THEN Throws("Query has not completed.")
    ELSE IF ~res.resultSets.present
            \/ resultSetIndex > Len(res.resultSets.sets)
         THEN Throws("Result set was not found.")
    ELSE IF resultSetIndex < 0 \/ resultSetIndex >= Len(res.resultSets.sets)
         THEN Throws(ReadOfUndefined)
    ELSE LET resultSet == res.resultSets.sets[resultSetIndex + 1]
             slice == Slice(resultSet.rows, startRow, startRow + count)
         IN  IF startRow + count > Len(resultSet.rows)
             THEN Throws("Requested rows do not exist.")
             ELSE Returns([message |-> "",
                           rowCount |-> count,
                           rows |-> [i \in 1..Len(slice) |->
                                       getRow(resultSet.columns, slice[i])]])

Undefined == [defined |-> FALSE, set |-> Empty]
Defined(rs) == [defined |-> TRUE, set |-> rs]

\* QueryRunner.getQueryResultSet.
getQueryResultSet(res, resultSet) ==
    IF res = NoResult THEN Throws("Query has not completed.")
    ELSE IF ~res.resultSets.present \/ resultSet >= Len(res.resultSets.sets)
         THEN Throws("Invalid result set specified.")
    ELSE IF resultSet < 0 THEN Returns(Undefined)
    ELSE Returns(Defined(res.resultSets.sets[resultSet + 1]))

NoRequest ==
    [op |-> "none", ownerUri |-> NoKey, index |-> 0, startRow |-> 0,
     count |-> 0, seen |-> NoResult]

\* Mutant: reading hands the stored messages and result sets over.
AfterRead_Drained(res) ==
    IF res = NoResult THEN res
    ELSE [res EXCEPT !.messages = <<>>, !.resultSets = NoResultSets]

\* this.result after a getter ran: the getters assign nothing.
AfterRead(res) == res

\* What a getter call leaves behind it.
GetterFrame(h) ==
    /\ result' = [result EXCEPT ![h] = AfterRead(@)]
    /\ UNCHANGED <<unreadByGetters, providerVars, connVars, envVars,
                   utilVars, exportVars>>

GetResultSet(h, resultSetIndex, startRow, count) ==
    /\ pc[h] # "none"
    /\ request' = [op |-> "getResultSet", ownerUri |-> NoKey,
                   index |-> resultSetIndex,
                   startRow |-> startRow, count |-> count,
                   seen |-> result[h]]
    /\ returned' = getResultSet(result[h], resultSetIndex, startRow, count)
    /\ GetterFrame(h)

GetQueryResultSet(h, resultSet) ==
    /\ pc[h] # "none"
    /\ request' = [op |-> "getQueryResultSet", ownerUri |-> NoKey,
                   index |-> resultSet,
                   startRow |-> 0, count |-> 0, seen |-> result[h]]
    /\ returned' = getQueryResultSet(result[h], resultSet)
    /\ GetterFrame(h)

GetResultSetSummaries(h) ==
    /\ pc[h] # "none"
    /\ request' = [op |-> "getResultSetSummaries", ownerUri |-> NoKey,
                   index |-> 0,
                   startRow |-> 0, count |-> 0, seen |-> result[h]]
    /\ returned' = getResultSetSummaries(result[h])
    /\ GetterFrame(h)

GetMessages(h) ==
    /\ pc[h] # "none"
    /\ request' = [op |-> "getMessages", ownerUri |-> NoKey,
                   index |-> 0, startRow |-> 0,
                   count |-> 0, seen |-> result[h]]
    /\ returned' = getMessages(result[h])
    /\ GetterFrame(h)

\* Mutant: without a query for the URI an empty window is served.
getQueryRows_Lenient(ownerUri, resultSetIndex, rowsStartIndex, rowsCount) ==
    IF activeQueries[ownerUri] = NoHandle
    THEN Returns([rowCount |-> 0, rows |-> <<>>])
    ELSE getResultSet(result[activeQueries[ownerUri]], resultSetIndex,
                      rowsStartIndex, rowsCount)

\* QueryProvider.getQueryRows.
getQueryRows(ownerUri, resultSetIndex, rowsStartIndex, rowsCount) ==
    IF activeQueries[ownerUri] = NoHandle
    THEN Throws("Query was not found.")
    ELSE getResultSet(result[activeQueries[ownerUri]], resultSetIndex,
                      rowsStartIndex, rowsCount)

GetQueryRows(k, resultSetIndex, rowsStartIndex, rowsCount) ==
    /\ request' = [op |-> "getQueryRows", ownerUri |-> k,
                   index |-> resultSetIndex, startRow |-> rowsStartIndex,
                   count |-> rowsCount,
                   seen |-> IF activeQueries[k] = NoHandle THEN NoResult
                            ELSE result[activeQueries[k]]]
    /\ returned' = getQueryRows(k, resultSetIndex, rowsStartIndex, rowsCount)
    /\ IF activeQueries[k] = NoHandle
       THEN UNCHANGED <<runnerVars, providerVars, connVars, envVars,
                        utilVars, exportVars>>
       ELSE GetterFrame(activeQueries[k])

InitRows ==
    /\ request = NoRequest
    /\ returned = Returns(<<>>)

NoCall == [fn |-> "none", type |-> "Unknown", value |-> Null, ms |-> 0]

InitUtils ==
    /\ call = NoCall
    /\ output = ""

\* ------------------------------------------------------------ exportToCsv.ts
\* String.prototype.indexOf, counted from one; 0 when sub does not occur.
IndexOf(text, sub) ==
    LET at == {i \in 1..(Len(text) - Len(sub) + 1) :
                  SubSeq(text, i, i + Len(sub) - 1) = sub}
    IN  IF at = {} THEN 0 ELSE CHOOSE i \in at : \A j \in at : i <= j

Contains(text, sub) == IndexOf(text, sub) # 0
StartsWith(text, sub) == Len(text) >= Len(sub) /\ SubSeq(text, 1, Len(sub)) = sub
EndsWith(text, sub) ==
    /\ Len(text) >= Len(sub)
    /\ SubSeq(text, Len(text) - Len(sub) + 1, Len(text)) = sub

\* String.prototype.replace with a RegExp without the g flag: the first
\* match of the pattern is replaced.
ReplaceFirst(text, pattern, by) ==
    LET i == IndexOf(text, pattern)
    IN  IF i = 0 THEN text
        ELSE SubSeq(text, 1, i - 1) \o by
             \o SubSeq(text, i + Len(pattern), Len(text))

\* What new RegExp(`/\\${textIdentifier}/g`) matches: a slash, the text
\* identifier, a slash and the letter g.
QuotePattern(textIdentifier) == "/" \o textIdentifier \o "/g"

DefaultDelimiter == ","
DefaultTextIdentifier == "\""
EOL == "\n"

\* The text of a null value handed to encodeValue.
NoText == [null |-> TRUE, text |-> ""]
Text(t) == [null |-> FALSE, text |-> t]

\* ExportToCsv.encodeValue.
encodeValue(delimiter, textIdentifier, value) ==
    IF value.null THEN "NULL"
    ELSE LET text == ReplaceFirst(value.text, QuotePattern(textIdentifier),
                                  textIdentifier \o textIdentifier)
             needWrap == \/ Contains(text, delimiter)
                         \/ Contains(text, "\r")
                         \/ Contains(text, "\n")
                         \/ Contains(text, textIdentifier)
                         \/ StartsWith(text, " ")
                         \/ EndsWith(text, " ")
                         \/ StartsWith(text, "\t")
                         \/ EndsWith(text, "\t")
         IN  IF needWrap THEN textIdentifier \o text \o textIdentifier
             ELSE text

\* The texts encodeValue is called with.
CsvTexts ==
    {"", "a", "NULL", "a,b", ",", "a\"b", "\"", "\"\"", " a", "a ", "a b",
     "\ta", "a\t", "a\tb", "a\nb", "a\rb", "/\"/g", "x/\"/gy\"z", "say \"hi\""}

EncodeValue(value) ==
    /\ call' = [fn |-> "encodeValue", type |-> "Unknown",
                value |-> IF value.null THEN Null ELSE Str(value.text),
                ms |-> 0]
    /\ output' = encodeValue(DefaultDelimiter, DefaultTextIdentifier, value)
    /\ UNCHANGED outsideUtils

\* Array.prototype.join.
RECURSIVE JoinWith(_, _)
JoinWith(fields, delimiter) ==
    IF fields = <<>> THEN ""
    ELSE IF Len(fields) = 1 THEN fields[1]
    ELSE fields[1] \o delimiter \o JoinWith(Tail(fields), delimiter)

\* What is handed to stream.write: a line of text, or the JSON text of the
\* records (kept as the records it is the text of).
TextChunk(text) == [text |-> text, records |-> <<>>]
JsonChunk(records) == [text |-> "json", records |-> records]

\* Mutant: the default of request.includeHeaders is true.
IncludeHeaders_DefaultOn(flag) == IF flag = "unset" THEN TRUE ELSE flag = "true"

\* request.includeHeaders ?? false
IncludeHeaders(flag) == IF flag = "unset" THEN FALSE ELSE flag = "true"

\* No serializer made, no file touched.
NoSerializer ==
    [kind |-> "none", includeHeaders |-> FALSE,
     delimiter |-> DefaultDelimiter, lineSeperator |-> EOL,
     textIdentifier |-> DefaultTextIdentifier,
     stream |-> FALSE, columnNames |-> <<>>, dataObject |-> <<>>,
     resultSet |-> Empty, phase |-> "idle", awaited |-> 0,
     handles |-> 0, opens |-> 0, issued |-> <<>>, file |-> <<>>,
     rowCalls |-> <<>>, closeCalls |-> 0, calls |-> 0]

\* new ExportToCsv(request) / new ExportToJson(request)
NewSerializer(kind, req) ==
    [NoSerializer EXCEPT !.kind = kind,
                         !.includeHeaders = IncludeHeaders(req.includeHeaders)]

\* stream.write(chunk) is issued.
IssueWrite(s, chunk) == [s EXCEPT !.issued = Append(@, chunk)]

\* The writes issued and not yet completed.
Pending(s) ==
    {i \in 1..Len(s.issued) : \A j \in 1..Len(s.file) : s.file[j] # i}

\* What the destination holds: the completed writes, in completion order.
FileContent(s) == [j \in 1..Len(s.file) |-> s.issued[s.file[j]]]

CsvLine(s, fields) == JoinWith(fields, s.delimiter) \o s.lineSeperator

HeaderLine(s, columns) ==
    CsvLine(s, [i \in 1..Len(columns) |->
                  encodeValue(s.delimiter, s.textIdentifier,
                              Text(columns[i].name))])

RowLine(s, columns, row) ==
    CsvLine(s, [i \in 1..Len(row) |->
                  IF IsNullish(row[i])
                  THEN encodeValue(s.delimiter, s.textIdentifier, NoText)
                  ELSE encodeValue(s.delimiter, s.textIdentifier,
                                   Text(getCellDisplayValue(columns[i].type,
                                                            row[i])))])

\* data[name] = value on a record kept as its entries in insertion order.
SetKey(data, name, value) ==
    IF \E i \in 1..Len(data) : data[i].name = name
    THEN [i \in 1..Len(data) |->
            IF data[i].name = name THEN [name |-> name, value |-> value]
            ELSE data[i]]
    ELSE Append(data, [name |-> name, value |-> value])

\* The record ExportToJson.writeRow builds, from its first n columns.
RECURSIVE JsonRecord(_, _, _)
JsonRecord(columnNames, row, n) ==
    IF n = 0 THEN <<>>
    ELSE SetKey(JsonRecord(columnNames, row, n - 1), columnNames[n],
                IF IsNullish(row[n]) THEN Null ELSE row[n])

Min(a, b) == IF a < b THEN a ELSE b

\* Mutant: the newest record is put first.
PushRecord_First(dataObject, record) == <<record>> \o dataObject

\* this.dataObject.push(data)
PushRecord(dataObject, record) == Append(dataObject, record)

\* ExportToCsv.writeRow / ExportToJson.writeRow, to the point where they
\* return their promise.
writeRow(s, columns, row) ==
    LET logged == [s EXCEPT !.rowCalls = Append(@, row)]
    IN  IF s.kind = "csv"
        THEN IF ~s.stream THEN logged
             ELSE IssueWrite(logged, TextChunk(RowLine(s, columns, row)))
        ELSE [logged EXCEPT !.dataObject =
                 PushRecord(@, JsonRecord(s.columnNames, row,
                                          Min(Len(row), Len(s.columnNames))))]

\* for (const row of resultSet.rows) serializer.writeRow(columns, row)
RECURSIVE WriteRows(_, _, _)
WriteRows(s, columns, rows) ==
    IF rows = <<>> THEN s
    ELSE WriteRows(writeRow(s, columns, Head(rows)), columns, Tail(rows))

\* open(), to its await of fs.open.
OpenCall(s, resultSet) ==
    [s EXCEPT !.resultSet = resultSet,
              !.columnNames =
                  IF s.kind = "json"
                  THEN [i \in 1..Len(resultSet.columns) |->
                          resultSet.columns[i].name]
                  ELSE @,
              !.phase = "fsOpen"]

\* fs.open(filePath, "w") resolved: the file is empty and the handle is
\* stored; the CSV serializer with headers issues the header line.
Opened(s) ==
    LET got == [s EXCEPT !.stream = TRUE, !.handles = @ + 1,
                         !.opens = @ + 1, !.file = <<>>, !.issued = <<>>,
                         !.phase = "idle"]
    IN  IF s.kind = "csv" /\ s.includeHeaders
        THEN [IssueWrite(got, TextChunk(HeaderLine(s, s.resultSet.columns)))
                EXCEPT !.phase = "headerWrite", !.awaited = 1]
        ELSE got

\* close(), to its first await, or to its end when no file is open.
CloseCall(s) ==
    LET counted == [s EXCEPT !.closeCalls = @ + 1]
    IN  IF ~s.stream THEN counted
        ELSE IF s.kind = "csv" THEN [counted EXCEPT !.phase = "fsClose"]
        ELSE [IssueWrite(counted, JsonChunk(s.dataObject))
                EXCEPT !.phase = "jsonWrite", !.awaited = Len(s.issued) + 1]

\* stream.close() resolved.
Closed(s) ==
    [s EXCEPT !.stream = FALSE, !.handles = @ - 1, !.phase = "idle"]

\* saveResults after `await serializer.open(resultSet)`.
AfterOpen(s) ==
    CloseCall(WriteRows(s, s.resultSet.columns, s.resultSet.rows))

NoSave == [pc |-> "none",
           request |-> [ownerUri |-> NoKey, resultSetIndex |-> 0,
                        resultFormat |-> "", includeHeaders |-> "unset"],
           outcome |-> Returns("")]

SaveRequests ==
    [ownerUri : Keys, resultSetIndex : 0..2,
     resultFormat : {"csv", "json", "excel"},
     includeHeaders : {"unset", "true", "false"}]

\* saveResults, to its first await or to its end.
SaveResults(req) ==
    /\ sv.pc = "none"
    /\ LET h == activeQueries[req.ownerUri]
           got == IF h = NoHandle
                  THEN Throws("Cannot read properties of undefined (reading 'getQueryResultSet')")
                  ELSE getQueryResultSet(result[h], req.resultSetIndex)
       IN  IF ~got.ok
           THEN /\ sv' = [pc |-> "threw", request |-> req, outcome |-> got]
                /\ UNCHANGED ser
           ELSE IF req.resultFormat \notin {"csv", "json"}
           THEN /\ sv' = [pc |-> "returned", request |-> req,
                          outcome |-> Returns("Format is not supported.")]
                /\ UNCHANGED ser
           ELSE /\ sv' = [pc |-> "opening", request |-> req,
                          outcome |-> Returns("")]
                /\ ser' = OpenCall(NewSerializer(req.resultFormat, req),
                                   got.value.set)
    /\ UNCHANGED outsideExport

\* open() has resolved: saveResults, when it made the call, writes the
\* rows, calls close() and waits for it.
ContinueSave(s) ==
    IF sv.pc = "opening"
    THEN /\ ser' = AfterOpen(s)
         /\ sv' = [sv EXCEPT !.pc = "closing"]
    ELSE /\ ser' = s
         /\ UNCHANGED sv

\* fs.open resolves.
FsOpenCompletes ==
    /\ ser.phase = "fsOpen"
    /\ IF Opened(ser).phase = "idle"
       THEN ContinueSave(Opened(ser))
       ELSE ser' = Opened(ser) /\ UNCHANGED sv
    /\ UNCHANGED outsideExport

\* One of the writes in flight completes; those not awaited complete in
\* any order.
WriteCompletes(i) ==
    /\ i \in Pending(ser)
    /\ LET done == [ser EXCEPT !.file = Append(@, i)]
       IN  IF ser.phase = "headerWrite" /\ i = ser.awaited
           THEN ContinueSave([done EXCEPT !.phase = "idle"])
           ELSE IF ser.phase = "jsonWrite" /\ i = ser.awaited
           THEN ser' = [done EXCEPT !.phase = "fsClose"] /\ UNCHANGED sv
           ELSE ser' = done /\ UNCHANGED sv
    /\ UNCHANGED outsideExport

\* stream.close() resolves, once no operation on the handle is pending;
\* saveResults returns.
FsCloseCompletes ==
    /\ ser.phase = "fsClose"
    /\ Pending(ser) = {}
    /\ ser' = Closed(ser)
    /\ sv' = IF sv.pc = "closing"
             THEN [sv EXCEPT !.pc = "returned", !.outcome = Returns("")]
             ELSE sv
    /\ UNCHANGED outsideExport

\* close() called once more on a serializer saveResults is done with.
CloseAgain ==
    /\ sv.pc = "returned"
    /\ ser.kind # "none"
    /\ ser.closeCalls = 1
    /\ ser' = CloseCall(ser)
    /\ UNCHANGED sv
    /\ UNCHANGED outsideExport

\* The serializer used directly, one call after the other has resolved.
CanCall ==
    /\ sv.pc = "none"
    /\ ser.phase = "idle"
    /\ Pending(ser) = {}
    /\ ser.calls < MaxCalls

Called(s) == [s EXCEPT !.calls = @ + 1]

\* new ExportToCsv(request)
NewCsv(flag) ==
    /\ sv.pc = "none"
    /\ ser.kind = "none"
    /\ ser' = NewSerializer("csv", [includeHeaders |-> flag])
    /\ UNCHANGED sv
    /\ UNCHANGED outsideExport

\* ExportToCsv.open called.
CsvOpen(resultSet) ==
    /\ CanCall
    /\ ser.kind = "csv"
    /\ ser' = OpenCall(Called(ser), resultSet)
    /\ UNCHANGED sv
    /\ UNCHANGED outsideExport

\* ExportToCsv.writeRow called.
CsvWriteRow(columns, row) ==
    /\ CanCall
    /\ ser.kind = "csv"
    /\ ser' = writeRow(Called(ser), columns, row)
    /\ UNCHANGED sv
    /\ UNCHANGED outsideExport

\* ExportToCsv.close called.
CsvClose ==
    /\ CanCall
    /\ ser.kind = "csv"
    /\ ser' = CloseCall(Called(ser))
    /\ UNCHANGED sv
    /\ UNCHANGED outsideExport

InitExport ==
    /\ sv = NoSave
    /\ ser = NoSerializer

ColumnTypes ==
    {"Unknown", "String", "Number", "Boolean", "DateTime", "ByteArray"}

Stamps ==
    {Stamp(Iso(d, h, mi, sec, ms, utc)) :
        d \in {2, 3, 4}, h \in {0, 1, 5, 6, 23}, mi \in {0, 30},
        sec \in {0, 59}, ms \in {0, 7, 123}, utc \in BOOLEAN}

PlainValues ==
    {Num(0), Num(7), Num(12), Num(-3), Str(""), Str("a"), Str("0"),
     Bool(TRUE), Bool(FALSE)}

\* The type and value pairs getCellDisplayValue is called with; a DateTime
\* column holds timestamps, text that is no date, or nothing.
CellInputs ==
    ((ColumnTypes \ {"DateTime"}) \X (PlainValues \cup {Null, Undef}))
    \cup ({"DateTime"} \X (Stamps \cup {Null, Undef, Str(""), Str("a")}))
    \cup ({"String", "Unknown"} \X {Stamp(Iso(3, 6, 30, 0, 0, TRUE))})

FormatCell(type, value) ==
    /\ call' = [fn |-> "getCellDisplayValue", type |-> type,
                value |-> value, ms |-> 0]
    /\ output' = getCellDisplayValue(type, value)
    /\ UNCHANGED outsideUtils

\* Mutant: the minutes are not taken out before the seconds are counted.
toElapsedString_NoCarry(totalMilliseconds) ==
    LET hours == totalMilliseconds \div (1000 * 60 * 60)
        afterHours == totalMilliseconds % (1000 * 60 * 60)
        minutes == afterHours \div (1000 * 60)
        seconds == afterHours \div 1000
        milliseconds == afterHours % 1000
    IN  Join(Pad(hours, 2) \o <<":">> \o Pad(minutes, 2) \o <<":">>
             \o Pad(seconds, 2) \o <<".">> \o Pad(milliseconds, 3))

\* toElapsedString: hours, minutes, seconds and milliseconds are taken out
\* of the total one after the other, each padded with zeros on the left.
toElapsedString(totalMilliseconds) ==
    LET hours == totalMilliseconds \div (1000 * 60 * 60)
        afterHours == totalMilliseconds % (1000 * 60 * 60)
        minutes == afterHours \div (1000 * 60)
        afterMinutes == afterHours % (1000 * 60)
        seconds == afterMinutes \div 1000
        milliseconds == afterMinutes % 1000
    IN  Join(Pad(hours, 2) \o <<":">> \o Pad(minutes, 2) \o <<":">>
             \o Pad(seconds, 2) \o <<".">> \o Pad(milliseconds, 3))

\* Durations handed to toElapsedString: every field at its least and its
\* greatest value, hours of one, two and three digits.
ElapsedInputs ==
    {((h * 60 + m) * 60 + sec) * 1000 + x :
        h \in {0, 9, 10, 99, 100, 500},
        m \in {0, 1, 59}, sec \in {0, 59}, x \in {0, 7, 999}}

ToElapsedString(totalMilliseconds) ==
    /\ call' = [fn |-> "toElapsedString", type |-> "Unknown",
                value |-> Null, ms |-> totalMilliseconds]
    /\ output' = toElapsedString(totalMilliseconds)
    /\ UNCHANGED outsideUtils

\* ----------------------------------------------------------- specifications
InitCommon ==
    /\ owner = [h \in Handles |-> NoKey]
    /\ cancelled = [h \in Handles |-> FALSE]
    /\ signalAborted = [h \in Handles |-> FALSE]
    /\ aborted = [h \in Handles |-> FALSE]
    /\ identifier = [h \in Handles |-> NoId]
    /\ result = [h \in Handles |-> NoResult]
    /\ failure = [h \in Handles |-> NoFailure]
    /\ failedWith = [h \in Handles |-> [rejected |-> FALSE, status |-> 0]]
    /\ outstanding = [h \in Handles |-> 0]
    /\ pollsIssued = [h \in Handles |-> 0]
    /\ recvLog = [h \in Handles |-> <<>>]
    /\ callbackLog = [h \in Handles |-> <<>>]
    /\ cancelSent = [h \in Handles |-> <<>>]
    /\ deleteInFlight = [h \in Handles |-> 0]
    /\ cancelCalls = [h \in Handles |-> 0]
    /\ cancelledAt = [h \in Handles |-> "never"]
    /\ activeQueries = [k \in Keys |-> NoHandle]
    /\ pendingRuns = [k \in Keys |-> 0]
    /\ cancelQueryCalls = [k \in Keys |-> 0]
    /\ events = [k \in Keys |-> <<>>]
    /\ InitConnections
    /\ InitRows
    /\ InitUtils
    /\ InitExport

\* One QueryRunner, constructed by a client that holds it directly.
Init ==
    /\ pc = [h \in Handles |-> IF h = "r1" THEN "new" ELSE "none"]
    /\ hostZone = "UTC"
    /\ InitCommon

ServerResponds ==
    \E resp \in Responses("r1", 0..MaxMsgs, ResultSetChoices, ErrorBodies, TRUE) :
        OnResponse("r1", resp)

ServerAnswersCancel == \E ok \in BOOLEAN : OnCancelResponse("r1", ok)

Next ==
    \/ Execute("r1")
    \/ Cancel("r1")
    \/ ServerResponds
    \/ ServerAnswersCancel

Spec == Init /\ [][Next]_vars

\* The QueryProvider with the runners it creates.
InitProvider ==
    /\ pc = [h \in Handles |-> "none"]
    /\ hostZone = "UTC"
    /\ InitCommon

ProviderServerResponds ==
    \E h \in Handles :
        \E resp \in Responses(h, {1}, {ResultSets(<<RS1, RS2>>)},
                                {MessageBody}, FALSE) :
            OnResponse(h, resp)

ProviderServerAnswersCancel ==
    \E h \in Handles : \E ok \in BOOLEAN : OnCancelResponse(h, ok)

NextProvider ==
    \/ \E k \in Keys : RunQuery(k)
    \/ \E k \in Keys : RunQueryCallback(k)
    \/ \E k \in Keys : CancelQuery(k)
    \/ \E k \in Keys : DisposeQuery(k)
    \/ ProviderServerResponds
    \/ ProviderServerAnswersCancel

SpecProvider == InitProvider /\ [][NextProvider]_vars

\* The ConnectionProvider with the connect() calls in flight.
InitConnection ==
    /\ pc = [h \in Handles |-> "none"]
    /\ hostZone = "UTC"
    /\ InitCommon

LoginResponds ==
    \E c \in Conns : \E resp \in LoginResponses : OnLoginResponse(c, resp)

NegotiateResponds ==
    \E c \in Conns : \E resp \in NegotiateResponses :
        OnNegotiateResponse(c, resp)

NextConnection ==
    \/ \E k \in ConnectionKeys : Connect(k)
    \/ LoginResponds
    \/ NegotiateResponds
    \/ \E k \in ConnectionKeys : Disconnect(k)
    \/ \E k \in ConnectionKeys : CancelConnect(k)
    \/ \E n \in ConnectionKeys : \E o \in ConnectionKeys : RenameUri(n, o)

SpecConnection == InitConnection /\ [][NextConnection]_vars

\* One QueryRunner whose rows the host requests; the server reports the
\* query complete, or fails, no later than in its answer to the first poll.
RowsServerResponds ==
    \E resp \in Responses("r1", {1}, RowResultChoices, {MessageBody}, FALSE) :
        /\ resp.status = 200
               => resp.progress.isComplete \/ pollsIssued["r1"] = 0
        /\ OnResponse("r1", resp)

RowIndexes == -1..MaxIndex
RowArgs == -MaxRowArg..MaxRowArg

NextRows ==
    \/ Execute("r1")
    \/ RowsServerResponds
    \/ \E i \in RowIndexes : \E st \in RowArgs : \E n \in RowArgs :
          GetResultSet("r1", i, st, n)
    \/ \E i \in RowIndexes : GetQueryResultSet("r1", i)
    \/ GetResultSetSummaries("r1")
    \/ GetMessages("r1")

SpecRows == Init /\ [][NextRows]_vars

\* The functions of utils.ts called directly, on a host in some time zone.
InitUtilsSpec ==
    /\ pc = [h \in Handles |-> "none"]
    /\ hostZone \in HostZones
    /\ InitCommon

NextUtils ==
    \/ \E in \in CellInputs : FormatCell(in[1], in[2])
    \/ \E v \in {Text(t) : t \in CsvTexts} \cup {NoText} : EncodeValue(v)
    \/ \E ms \in ElapsedInputs : ToElapsedString(ms)

SpecUtils == InitUtilsSpec /\ [][NextUtils]_vars

\* The QueryProvider with one URI queried, and saveResults.
ExportServerResponds ==
    \E h \in Handles :
        \E resp \in Responses(h, {0}, {ResultSets(<<Orders, Empty>>)},
                                {MessageBody}, FALSE) :
            OnResponse(h, resp)

NextExport ==
    \/ RunQuery("uriA")
    \/ RunQueryCallback("uriA")
    \/ ExportServerResponds
    \/ \E req \in SaveRequests : SaveResults(req)
    \/ FsOpenCompletes
    \/ \E i \in 1..Len(ser.issued) : WriteCompletes(i)
    \/ FsCloseCompletes
    \/ CloseAgain

SpecExport == InitProvider /\ [][NextExport]_vars

\* The QueryProvider with queries run for one URI, whose rows the host
\* requests and saves under that URI and under another: each query is
\* answered, complete or failed, no later than at its first poll.
ServeResultChoices == {ResultSets(<<Orders>>), ResultSets(<<Empty, Orders>>)}

ServeServerResponds ==
    \E h \in Handles :
        \E resp \in Responses(h, {0}, ServeResultChoices, {MessageBody},
                                FALSE) :
            /\ resp.status = 200
                   => resp.progress.isComplete \/ pollsIssued[h] = 0
            /\ OnResponse(h, resp)

ServeIndexes == 0..MaxIndex

\* Row windows asked for: the first row, and three rows from the second.
ServeWindows == {<<0, 1>>, <<1, 3>>}

ServeSaves ==
    {req \in SaveRequests :
        /\ req.includeHeaders = "unset"
        /\ req.resultFormat \in {"json", "excel"}
        /\ req.resultSetIndex \in {0, 2}}

NextServe ==
    \/ RunQuery("uriA")
    \/ RunQueryCallback("uriA")
    \/ ServeServerResponds
    \/ \E k \in Keys : \E i \in ServeIndexes : \E w \in ServeWindows :
          GetQueryRows(k, i, w[1], w[2])
    \/ \E req \in ServeSaves : SaveResults(req)
    \/ FsOpenCompletes
    \/ \E i \in 1..Len(ser.issued) : WriteCompletes(i)
    \/ FsCloseCompletes

SpecServe == InitProvider /\ [][NextServe]_vars


\* One ExportToCsv serializer made and called directly.
NextCsv ==
    \/ \E flag \in {"unset", "true"} : NewCsv(flag)
    \/ CsvOpen(Empty)
    \/ \E row \in {<<Num(7)>>, <<Str("a,b")>>, <<Null>>} :
          CsvWriteRow(Empty.columns, row)
    \/ CsvClose
    \/ FsOpenCompletes
    \/ \E i \in 1..Len(ser.issued) : WriteCompletes(i)
    \/ FsCloseCompletes

SpecCsv == InitProvider /\ [][NextCsv]_vars


\* ------------------------------------------------------------------- claims
RECURSIVE Flatten(_)
Flatten(ss) == IF ss = <<>> THEN <<>> ELSE Head(ss) \o Flatten(Tail(ss))

Incomplete(s) == SelectSeq(s, LAMBDA p : ~p.isComplete)
MessagesOf(s) == [i \in 1..Len(s) |-> s[i].messages]
InFlight(h) == pc[h] \in {"submit", "poll"}

\* C1: once cancel() has returned for a running execution, the message
\* callback is never invoked again for it.
C1_NoCallbackAfterCancel ==
    [][\A h \in Handles :
          (cancelled[h] /\ cancelledAt[h] \in {"submit", "poll"})
              => callbackLog'[h] = callbackLog[h]]_vars

\* C2: a cancel that came before the submit response keeps every status
\* poll from being issued once the identifier has arrived.
C2_NoPollAfterEarlyCancel ==
    [][\A h \in Handles :
          cancelledAt[h] = "submit" => pollsIssued'[h] = pollsIssued[h]]_vars

\* C3: the progress handed to the caller comes from a complete response, no
\* request is outstanding once a complete response was received, and the
\* status polls issued are as many as the incomplete responses received.
C3_PollsMatchIncomplete ==
    \A h \in Handles :
        /\ pollsIssued[h] = Len(Incomplete(recvLog[h]))
        /\ \A i \in 1..Len(recvLog[h]) :
              recvLog[h][i].isComplete
                  => i = Len(recvLog[h]) /\ outstanding[h] = 0
        /\ pc[h] = "done" <=> result[h] # NoResult
        /\ pc[h] = "done"
              => result[h].isComplete
                 /\ result[h] = recvLog[h][Len(recvLog[h])]

C3_Witness ==
    pc["r1"] = "done" /\ pollsIssued["r1"] = 2 /\ Len(recvLog["r1"]) = 3

\* C4: at most one submit or status request of a runner is outstanding, and
\* each status poll was issued after a response to the request before it.
C4_OneOutstanding ==
    \A h \in Handles :
        /\ outstanding[h] \in {0, 1}
        /\ outstanding[h] = 1 <=> InFlight(h)
        /\ pollsIssued[h] <= Len(recvLog[h])

C4_Witness ==
    pc["r1"] = "poll" /\ pollsIssued["r1"] = 2 /\ outstanding["r1"] = 1

\* C5: the callback has received exactly the messages of the incomplete
\* responses, in response order and in message order, by the time the next
\* status poll is out; one incomplete response with one message gives one
\* invocation before completion.
C5_CallbackOrder ==
    \A h \in Handles :
        callbackLog[h] = Flatten(MessagesOf(Incomplete(recvLog[h])))

C5_Witness ==
    /\ pc["r1"] = "done"
    /\ Len(recvLog["r1"]) = 3
    /\ Len(recvLog["r1"][1].messages) = 2
    /\ Len(recvLog["r1"][2].messages) = 1
    /\ Len(recvLog["r1"][3].messages) = 2
    /\ callbackLog["r1"] = << <<1, 1>>, <<1, 2>>, <<2, 1>> >>

\* C6: per owner URI at most one execution that is neither cancelled nor
\* settled exists at any time.
C6_OneActivePerKey ==
    \A k \in Keys :
        Cardinality({h \in Handles :
                        owner[h] = k /\ InFlight(h) /\ ~cancelled[h]}) <= 1

\* What a step leaves alone when it only counts a cancel() call or only
\* takes a DELETE out of flight.
runnerState == <<pc, owner, cancelled, signalAborted, aborted, identifier,
                 result, failure, failedWith, outstanding, pollsIssued, recvLog,
                 callbackLog, cancelSent, cancelledAt, providerVars>>

CancelCalled(h) == cancelCalls'[h] = cancelCalls[h] + 1

\* C7 as stated: whenever cancel() is called with the identifier known, a
\* DELETE Sql/Cancel request is issued.
C7_EveryCancelSendsDelete ==
    [][\A h \in Handles :
          (CancelCalled(h) /\ identifier[h] # NoId)
              => Len(cancelSent'[h]) = Len(cancelSent[h]) + 1]_vars

\* C7 as amended: the first call of cancel() on a runner, when the
\* identifier is known, issues one DELETE to Sql/Cancel/{identifier} with
\* the session cookie and returns with that request still unanswered; the
\* answer to it, good or bad, changes nothing of the runner.
C7_FirstCancelSendsDelete ==
    [][\A h \in Handles :
          /\ (CancelCalled(h) /\ cancelCalls[h] = 0 /\ identifier[h] # NoId)
                => /\ cancelSent'[h] =
                         Append(cancelSent[h], CancelRequest(identifier[h]))
                   /\ deleteInFlight'[h] = deleteInFlight[h] + 1
                   /\ cancelled'[h]
          /\ deleteInFlight'[h] < deleteInFlight[h]
                => UNCHANGED <<runnerState, cancelCalls>>]_vars

C7_Witness ==
    /\ cancelledAt["r1"] = "poll"
    /\ cancelSent["r1"] = <<CancelRequest("id1")>>
    /\ deleteInFlight["r1"] = 0
    /\ cancelled["r1"]

\* C8: a second or later cancel() on a runner changes nothing (it stays
\* cancelled), and no runner ever has more than one DELETE sent for it.
C8_CancelIdempotent ==
    [][\A h \in Handles :
          /\ Len(cancelSent'[h]) <= 1
          /\ (CancelCalled(h) /\ cancelCalls[h] >= 1)
                => /\ cancelled[h]
                   /\ UNCHANGED <<runnerState, deleteInFlight>>]_vars

C8_Witness ==
    /\ cancelCalls["r1"] = 2
    /\ cancelledAt["r1"] = "poll"
    /\ Len(cancelSent["r1"]) = 1
    /\ cancelled["r1"]

\* C9: a cancel() made while the submit or a status request is outstanding
\* aborts that request, so none is outstanding afterwards.
C9_CancelAbortsRequest ==
    \A h \in Handles :
        cancelledAt[h] \in {"submit", "poll"} => outstanding[h] = 0

CompletionEventsOf(h) ==
    IF owner[h] = NoKey THEN <<>>
    ELSE SelectSeq(events[owner[h]],
                   LAMBDA e : e.runner = h /\ e.type # "batchStart")

\* C10: after a cancel made while a status poll was outstanding, the
\* runner's result stays unpopulated, no notification of the run follows,
\* and getResultSetSummaries on it fails.
C10_CancelledPollIgnored ==
    \A h \in Handles :
        cancelledAt[h] = "poll"
            => /\ result[h] = NoResult
               /\ ~getResultSetSummaries(result[h]).ok
               /\ CompletionEventsOf(h) = <<>>

\* The two texts getDefaultError falls back to.
GenericFallbacks == {"Unable to complete request.",
                     "Request failed but did not provide a reason."}

\* C11: a submit request answered with a non-success status makes execute
\* fail with no poll issued and no callback invoked, the error text being
\* the body's exceptionMessage, else its message, else a generic fallback.
C11_SubmitFailureText ==
    \A h \in Handles :
        (failure[h].at = "submit" /\ ~failedWith[h].rejected)
            => /\ pc[h] = "failed"
               /\ pollsIssued[h] = 0
               /\ callbackLog[h] = <<>>
               /\ LET b == failedWith[h].body
                  IN  IF b.exceptionMessage # ""
                      THEN failure[h].text = b.exceptionMessage
                      ELSE IF b.message # ""
                           THEN failure[h].text = b.message
                           ELSE failure[h].text \in GenericFallbacks

\* C12: a status poll that fails, by status or in transport, makes execute
\* fail with that error; no request is outstanding or issued afterwards and
\* the result stays unpopulated.
C12_FailedPollIsFinal ==
    \A h \in Handles :
        failure[h].at = "poll"
            => /\ pc[h] = "failed"
               /\ outstanding[h] = 0
               /\ pollsIssued[h] = Len(recvLog[h])
               /\ \A i \in 1..Len(recvLog[h]) : ~recvLog[h][i].isComplete
               /\ result[h] = NoResult
               /\ failure[h].text # ""
               /\ failedWith[h].rejected \/ failedWith[h].status # 200

C12_Witness ==
    /\ failure["r1"].at = "poll"
    /\ failedWith["r1"].rejected
    /\ pollsIssued["r1"] = 2
    /\ pc["r1"] = "failed"

\* C13: a run whose execution failed has notified, after batch-start, one
\* error message with the error text, then batch-complete with hasError,
\* then query-complete, and nothing else.
C13_FailureNotifications ==
    \A h \in Handles :
        (failure[h].at # "never" /\ owner[h] # NoKey)
            => CompletionEventsOf(h) =
                  << [type |-> "message", runner |-> h, isError |-> TRUE,
                      message |-> failure[h].text],
                     [type |-> "batchComplete", runner |-> h,
                      hasError |-> TRUE],
                     [type |-> "queryComplete", runner |-> h, batches |-> 1] >>

C13_Witness ==
    \E h \in Handles :
        /\ failure[h].at = "poll"
        /\ owner[h] = "uriA"
        /\ pc[h] = "failed"
        /\ Len(CompletionEventsOf(h)) = 3

\* C14: a query cancelled while it runs is reported by cancelQuery alone:
\* no message, batch-complete or query-complete of that run follows.
C14_CancelledRunSilent ==
    \A h \in Handles :
        (cancelledAt[h] \in {"submit", "poll"} /\ owner[h] # NoKey)
            => CompletionEventsOf(h) = <<>>

\* The login response Api.connect accepts, as the contract words it.
GoodLogin(c) ==
    /\ ~loginResponse[c].rejected
    /\ loginResponse[c].status \in {200, 204}
    /\ loginResponse[c].rock

GoodNegotiate(c) ==
    /\ ~connectResponse[c].rejected
    /\ connectResponse[c].status = 200

ConnectEnded(c) == connPc[c] \in {"failed", "cancelled", "connected"}

\* C15: a Session exists only for a connect whose login got 200 or 204
\* with a session cookie and whose negotiate got 200; a connect that ended
\* any other way failed and no Session was made or stored for it.
C15_SessionOnlyAfterBoth ==
    \A c \in Conns :
        /\ (connApi[c].created \/ connPc[c] \in {"cancelled", "connected"})
              => GoodLogin(c) /\ GoodNegotiate(c)
        /\ (ConnectEnded(c) /\ ~(GoodLogin(c) /\ GoodNegotiate(c)))
              => /\ connPc[c] = "failed"
                 /\ connError[c] # ""
                 /\ connApi[c] = NoSession
                 /\ \A k \in ConnectionKeys : getConnectionApi(k) # Session(c)

C15_Witness ==
    /\ connApi["c1"] = Session("c1")
    /\ loginResponse["c1"].status = 204
    /\ connPc["c2"] = "failed"
    /\ GoodLogin("c2")
    /\ connectResponse["c2"].status = 500

\* The failure classes of the contract; "other" covers what it leaves open.
FailureClass(c) ==
    IF loginResponse[c].rejected THEN "other"
    ELSE IF loginResponse[c].status = 401 THEN "credentials"
    ELSE IF loginResponse[c].status \notin {200, 204} THEN "other"
    ELSE IF ~loginResponse[c].rock THEN "protocol"
    ELSE IF connectResponse[c].rejected THEN "other"
    ELSE IF connectResponse[c].status # 200 THEN "negotiation"
    ELSE "other"

\* C16: a 401 login fails with 'Invalid username or password.', an accepted
\* login without session credential with the invalid-response error, a
\* non-success negotiate with the negotiation error; the three differ, and
\* the error is what the connection-complete notification carries.
C16_FailureClasses ==
    \A c \in Conns :
        connPc[c] = "failed"
            => /\ FailureClass(c) = "credentials"
                    => connError[c] = "Invalid username or password."
               /\ FailureClass(c) = "protocol"
                    => connError[c] =
                          "Invalid response received from the server."
               /\ FailureClass(c) = "negotiation"
                    => connError[c] =
                          "Unable to negotiate connection with the server."
               /\ \E i \in 1..Len(connEvents) :
                      connEvents[i] = [ownerUri |-> connUri[c],
                                       errorMessage |-> connError[c]]
               /\ \A d \in Conns :
                      (/\ connPc[d] = "failed"
                       /\ FailureClass(c) # "other"
                       /\ FailureClass(d) # "other"
                       /\ FailureClass(c) # FailureClass(d))
                          => connError[c] # connError[d]

C16_Witness ==
    /\ connPc["c1"] = "failed"
    /\ FailureClass("c1") = "credentials"
    /\ connPc["c2"] = "failed"
    /\ FailureClass("c2") \in {"protocol", "negotiation"}

\* C17: getConnectionApi(k) returns a Session only for a connect registered
\* under k that succeeded and was not cancelled; right after disconnect(k)
\* or cancelConnect(k), and for a failed connect, it returns none.
C17_SessionOnlyWhileConnected ==
    /\ [](\A k \in ConnectionKeys :
            /\ getConnectionApi(k).created
                  => /\ connections[k] \in Conns
                     /\ getConnectionApi(k) = Session(connections[k])
                     /\ connPc[connections[k]] = "connected"
                     /\ GoodLogin(connections[k])
                     /\ GoodNegotiate(connections[k])
                     /\ ~connCancelled[connections[k]]
            /\ (connections[k] \in Conns
                /\ connPc[connections[k]] \in {"failed", "cancelled"})
                  => getConnectionApi(k) = NoSession)
    /\ [][\A k \in ConnectionKeys :
            (Disconnect(k) \/ CancelConnect(k))
                => getConnectionApi(k)' = NoSession]_vars

C17_Witness ==
    /\ getConnectionApi("uriA") = Session("c1")
    /\ connections["uriC"] = "c2"
    /\ connPc["c2"] = "failed"
    /\ connections["uriB"] = NoConn

\* C18: renameUri moves oldUri's association to newUri as it is, leaves
\* oldUri without one unless the two are equal, and changes no other key;
\* without an association under oldUri the registry stays as it was.
C18_RenameRekeys ==
    [][\A n \in ConnectionKeys : \A o \in ConnectionKeys :
          RenameUri(n, o)
              => IF connections[o] # NoConn
                 THEN /\ connections'[n] = connections[o]
                      /\ getConnectionApi(n)' = getConnectionApi(o)
                      /\ n # o => /\ connections'[o] = NoConn
                                  /\ getConnectionApi(o)' = NoSession
                      /\ \A k \in ConnectionKeys \ {n, o} :
                            /\ connections'[k] = connections[k]
                            /\ getConnectionApi(k)' = getConnectionApi(k)
                      /\ connApi' = connApi
                 ELSE connections' = connections]_vars

C18_Witness ==
    /\ connUri["c1"] = "uriA"
    /\ connections["uriB"] = "c1"
    /\ connections["uriA"] = NoConn
    /\ getConnectionApi("uriB") = Session("c1")
    /\ connUri["c2"] = "uriC"
    /\ connections["uriC"] = "c2"

\* The result sets of the result the last request read, none when the
\* server sent none.
SetsSeen ==
    IF request.seen.resultSets.present THEN request.seen.resultSets.sets
    ELSE <<>>

\* C19: for a completed query and a valid result-set index, getResultSet
\* fails with the rows-out-of-range error when start + count exceeds the
\* row count, and otherwise reports rowCount = count and returns exactly
\* the count rows start .. start+count-1, for all integers start and count.
C19_RowWindow ==
    (/\ request.op = "getResultSet"
     /\ request.seen # NoResult
     /\ request.index \in 0..(Len(SetsSeen) - 1))
        => LET set == SetsSeen[request.index + 1]
               start == request.startRow
               count == request.count
           IN  IF start + count > Len(set.rows)
               THEN returned = Throws("Requested rows do not exist.")
               ELSE /\ returned.ok
                    /\ returned.value.rowCount = count
                    /\ Len(returned.value.rows) = count
                    /\ \A i \in 1..count :
                          returned.value.rows[i] =
                              getRow(set.columns, set.rows[start + i])

\* C20: for a completed query with n result sets, getResultSet and
\* getQueryResultSet both fail with their not-found error for every index
\* outside 0..n-1 and accept every index inside.
C20_UniformIndexBounds ==
    (request.op # "none" /\ request.seen # NoResult)
        => LET n == Len(SetsSeen)
               notFound == IF request.op = "getResultSet"
                           THEN "Result set was not found."
                           ELSE "Invalid result set specified."
           IN  IF request.index \in 0..(n - 1)
               THEN returned.error # notFound
               ELSE returned = Throws(notFound)

\* C21: in every row getResultSet returns, the cell of a null or undefined
\* raw value has isNull and empty display text, every other cell has the
\* display text getCellDisplayValue gives for its column type, and the row
\* has one cell per raw value, in order.
C21_CellsOfRows ==
    (request.op = "getResultSet" /\ returned.ok)
        => LET set == SetsSeen[request.index + 1]
               raw == Slice(set.rows, request.startRow,
                            request.startRow + request.count)
               rows == returned.value.rows
           IN  /\ Len(rows) = Len(raw)
               /\ \A i \in 1..Len(raw) :
                     /\ Len(rows[i]) = Len(raw[i])
                     /\ \A j \in 1..Len(raw[i]) :
                           IF raw[i][j].kind \in {"null", "undefined"}
                           THEN /\ rows[i][j].isNull
                                /\ rows[i][j].displayValue = ""
                                /\ rows[i][j].invariantCultureDisplayValue = ""
                           ELSE /\ ~rows[i][j].isNull
                                /\ rows[i][j].displayValue =
                                      getCellDisplayValue(set.columns[j].type,
                                                          raw[i][j])

C21_Witness ==
    /\ request.op = "getResultSet"
    /\ returned.ok
    /\ Len(returned.value.rows) = 3
    /\ returned.value.rows[1][4].displayValue = "2024-11-03 06:30:00.007"
    /\ returned.value.rows[2][2].isNull
    /\ returned.value.rows[3][3].isNull
    /\ returned.value.rows[2][3].displayValue = "0"

\* C24: for a completed query with n result sets getResultSetSummaries
\* returns n summaries in order, the i-th with id i (from zero), the row
\* count of the i-th set, one column entry per column in order and
\* complete set; with no result sets it returns an empty sequence.
C24_Summaries ==
    (request.op = "getResultSetSummaries" /\ request.seen # NoResult)
        => LET sets == SetsSeen
               summaries == returned.value
           IN  /\ returned.ok
               /\ Len(summaries) = Len(sets)
               /\ \A i \in 1..Len(sets) :
                     /\ summaries[i].id = i - 1
                     /\ summaries[i].rowCount = Len(sets[i].rows)
                     /\ summaries[i].complete
                     /\ Len(summaries[i].columnInfo) = Len(sets[i].columns)
                     /\ \A j \in 1..Len(sets[i].columns) :
                           summaries[i].columnInfo[j].columnName =
                               sets[i].columns[j].name

C24_Witness ==
    /\ request.op = "getResultSetSummaries"
    /\ returned.ok
    /\ Len(returned.value) = 2
    /\ returned.value[2].id = 1
    /\ returned.value[1].rowCount = 3
    /\ returned.value[2].rowCount = 0

\* What the getter of a request answers on a stored result.
AnswerOf(req) ==
    IF req.op = "getResultSet"
    THEN getResultSet(req.seen, req.index, req.startRow, req.count)
    ELSE IF req.op = "getQueryResultSet"
    THEN getQueryResultSet(req.seen, req.index)
    ELSE IF req.op = "getResultSetSummaries"
    THEN getResultSetSummaries(req.seen)
    ELSE getMessages(req.seen)

\* C25: getResultSet, getQueryResultSet, getResultSetSummaries and
\* getMessages leave the stored result as it was, succeeding or failing, and
\* their answer depends on their arguments and the stored result alone.
C25_GettersPure ==
    [][(request' # request \/ returned' # returned)
          => /\ result' = result
             /\ request'.seen = result["r1"]
             /\ returned' = AnswerOf(request')
             /\ UNCHANGED <<recvLog, callbackLog, pc>>]_vars

C25_Witness ==
    /\ request.op = "getMessages"
    /\ returned.ok
    /\ Len(returned.value) = 1
    /\ result["r1"] = request.seen
    /\ Len(SetsSeen) = 2

\* The natural text of the plain values.
NaturalText(value) ==
    IF value = Num(0) THEN "0"
    ELSE IF value = Num(7) THEN "7"
    ELSE IF value = Num(12) THEN "12"
    ELSE IF value = Num(-3) THEN "-3"
    ELSE IF value = Bool(TRUE) THEN "true"
    ELSE IF value = Bool(FALSE) THEN "false"
    ELSE value.s

Falsy == {Num(0), Str(""), Bool(FALSE)}

\* C22: getCellDisplayValue returns "null" for a null or undefined value
\* of every type, "1" or "0" for a truthy or falsy Boolean value, the
\* value's natural text for String, Number, ByteArray and Unknown, and a
\* string in every case.
C22_DisplayValueTotal ==
    call.fn = "getCellDisplayValue"
        => /\ output \in STRING
           /\ call.value \in {Null, Undef} => output = "null"
           /\ (call.value \notin {Null, Undef} /\ call.type = "Boolean")
                 => output = IF call.value \in Falsy THEN "0" ELSE "1"
           /\ (/\ call.value \notin {Null, Undef}
               /\ call.type \in {"String", "Number", "ByteArray", "Unknown"})
                 => output = NaturalText(call.value)

C22_Witness ==
    /\ call.fn = "getCellDisplayValue"
    /\ call.type = "Boolean"
    /\ call.value = Str("0")
    /\ output = "1"

\* The shape YYYY-MM-DD HH:MM:SS.mmm.
IsDisplayShape(chars) ==
    /\ Len(chars) = 23
    /\ chars[5] = "-" /\ chars[8] = "-" /\ chars[11] = " "
    /\ chars[14] = ":" /\ chars[17] = ":" /\ chars[20] = "."
    /\ \A i \in (1..23) \ {5, 8, 11, 14, 17, 20} :
          \E d \in 1..10 : Digits[d] = chars[i]

\* C23: for a timestamp v, the DateTime display text has the shape
\* YYYY-MM-DD HH:MM:SS.mmm, parsing it and formatting again gives the same
\* text, and the parsed instant is the instant of v.
C23_DateRoundTrip ==
    (/\ call.fn = "getCellDisplayValue"
     /\ call.type = "DateTime"
     /\ call.value.iso.valid)
        => LET date == DateParse(hostZone, call.value)
               chars == getDateDisplayChars(hostZone, date)
               again == DateParseDisplay(hostZone, chars)
           IN  /\ output = Join(chars)
               /\ IsDisplayShape(chars)
               /\ again.valid
               /\ getDateDisplayChars(hostZone, again) = chars
               /\ again.time = date.time

\* The text with every quote character doubled.
RECURSIVE Doubled(_, _)
Doubled(text, quote) ==
    IF text = "" THEN ""
    ELSE (IF Head(text) = quote THEN quote \o quote ELSE Head(text))
         \o Doubled(Tail(text), quote)

\* The text with every doubled quote character made single again.
RECURSIVE Unescaped(_, _)
Unescaped(text, quote) ==
    IF Len(text) < 2 THEN text
    ELSE IF SubSeq(text, 1, 2) = quote \o quote
         THEN quote \o Unescaped(SubSeq(text, 3, Len(text)), quote)
    ELSE Head(text) \o Unescaped(Tail(text), quote)

HasChar(text, chars) ==
    \E i \in 1..Len(text) : SubSeq(text, i, i) \in chars

\* C26: a text holding the delimiter, a carriage return, a line feed or
\* the quote character, or starting or ending with a space or tab, is
\* written between quote characters with every quote character inside
\* doubled, so that un-escaping gives it back; any other text is written
\* as it is; a null cell is written as NULL.
C26_CellEncoding ==
    call.fn = "encodeValue"
        => IF call.value = Null THEN output = "NULL"
           ELSE LET v == call.value.s
                    q == DefaultTextIdentifier
                    quoted ==
                        \/ HasChar(v, {DefaultDelimiter, "\r", "\n", q})
                        \/ (v # "" /\ Head(v) \in {" ", "\t"})
                        \/ (v # "" /\ SubSeq(v, Len(v), Len(v)) \in {" ", "\t"})
                IN  IF quoted
                    THEN /\ output = q \o Doubled(v, q) \o q
                         /\ Unescaped(SubSeq(output, 2, Len(output) - 1), q) = v
                    ELSE output = v

\* The lines the CSV serializer has been asked to write for its rows.
RowChunks(s) ==
    [i \in 1..Len(s.rowCalls) |->
        TextChunk(RowLine(s, s.resultSet.columns, s.rowCalls[i]))]

\* C27: the CSV serializer writes the header line exactly once, inside
\* open and completed before any row is written, when and only when the
\* include-header flag is true (false unless the request says true); the
\* header is the column names, each encoded as a cell is, joined by the
\* delimiter and ended by the line separator.
C27_HeaderOnce ==
    (ser.kind = "csv")
        => LET names == [i \in 1..Len(ser.resultSet.columns) |->
                           encodeValue(DefaultDelimiter, DefaultTextIdentifier,
                                       Text(ser.resultSet.columns[i].name))]
               header == TextChunk(JoinWith(names, DefaultDelimiter) \o EOL)
           IN  /\ ser.includeHeaders = (sv.request.includeHeaders = "true")
               /\ ser.opens = 0 => ser.issued = <<>>
               /\ (ser.opens = 1 /\ ser.includeHeaders)
                      => /\ ser.issued = <<header>> \o RowChunks(ser)
                         /\ ser.rowCalls # <<>>
                                => Len(ser.file) >= 1 /\ ser.file[1] = 1
               /\ (ser.opens = 1 /\ ~ser.includeHeaders)
                      => ser.issued = RowChunks(ser)

C27_Witness ==
    /\ ser.kind = "csv"
    /\ ser.includeHeaders
    /\ sv.pc = "returned"
    /\ Len(ser.rowCalls) = 3
    /\ Len(ser.file) = 4

\* C28: saveResults with a format that is neither csv nor json returns
\* the message 'Format is not supported.', does not throw, and makes no
\* serializer and touches no file.
C28_UnsupportedFormat ==
    (sv.pc # "none" /\ sv.request.resultFormat \notin {"csv", "json"})
        => /\ sv.pc = "returned"
           /\ sv.outcome = Returns("Format is not supported.")
           /\ ser = NoSerializer

\* C29: saveResults with a supported format calls writeRow once per row
\* of the result set, in order and only once open has completed; when
\* close has released the file every row's write has completed and the
\* file holds the rows in the order of the result set.
C29_RowsInOrder ==
    (ser.kind \in {"csv", "json"})
        => /\ ser.rowCalls # <<>> => ser.opens = 1
           /\ Len(ser.rowCalls) <= Len(ser.resultSet.rows)
           /\ ser.rowCalls = SubSeq(ser.resultSet.rows, 1, Len(ser.rowCalls))
           /\ sv.pc = "returned"
                  => /\ ser.rowCalls = ser.resultSet.rows
                     /\ Pending(ser) = {}
                     /\ ser.handles = 0
                     /\ ser.file = [i \in 1..Len(ser.issued) |-> i]

\* C30: the JSON serializer writes nothing while it is opened and given
\* rows; its close issues one write holding a record for every row given,
\* in the order given, and then releases the file; a close after that
\* writes nothing more.
C30_JsonWritesOnClose ==
    (ser.kind = "json")
        => LET records ==
                   [i \in 1..Len(ser.rowCalls) |->
                       JsonRecord(ser.columnNames, ser.rowCalls[i],
                                  Min(Len(ser.rowCalls[i]),
                                      Len(ser.columnNames)))]
           IN  /\ ser.closeCalls = 0 => ser.issued = <<>>
               /\ ser.closeCalls >= 1 => ser.issued = <<JsonChunk(records)>>
               /\ ser.phase = "fsClose" => ser.file = <<1>>
               /\ sv.pc = "returned"
                      => /\ ser.file = <<1>>
                         /\ ser.handles = 0
                         /\ ~ser.stream

C30_Witness ==
    /\ ser.kind = "json"
    /\ ser.closeCalls = 2
    /\ Len(ser.dataObject) = 3
    /\ ser.file = <<1>>

\* C31: every record of the JSON serializer has one entry per column, in
\* column order, under the column's name, holding the display text of the
\* row's cell, or null when the raw cell is null or undefined.
C31_JsonRecordDisplayValues ==
    (ser.kind = "json")
        => \A i \in 1..Len(ser.dataObject) :
              LET row == ser.rowCalls[i]
                  columns == ser.resultSet.columns
                  record == ser.dataObject[i]
              IN  /\ Len(record) = Len(columns)
                  /\ \A j \in 1..Len(columns) :
                        /\ record[j].name = columns[j].name
                        /\ record[j].value =
                               IF IsNullish(row[j]) THEN Null
                               ELSE Str(getCellDisplayValue(columns[j].type,
                                                            row[j]))

\* A getQueryRows call returns or throws in this step.
ServedStep == rowVars' # rowVars /\ request'.op = "getQueryRows"

\* The query run last for URI k among those that have completed.
NewestCompleted(k) ==
    IF owner["r2"] = k /\ result["r2"] # NoResult THEN "r2"
    ELSE IF owner["r1"] = k /\ result["r1"] # NoResult THEN "r1"
    ELSE NoHandle

\* C32: once a query for a key has completed, getQueryRows for the key
\* answers from the result sets of the newest completed query for the key,
\* whole: a newer query for the key that has not completed yet changes
\* nothing in what is served.
C32_ResultsReplacedOnCompletion ==
    [][ServedStep
          => LET h == NewestCompleted(request'.ownerUri)
             IN  h # NoHandle
                    => returned' = getResultSet(result[h], request'.index,
                                                request'.startRow,
                                                request'.count)]_vars

\* saveResults throws in this step.
SaveThrowsStep == sv.pc = "none" /\ sv'.pc = "threw"

\* The URI has no query, or its query has completed and has no result set
\* with this index.
NothingToServe(k, index) ==
    \/ activeQueries[k] = NoHandle
    \/ /\ result[activeQueries[k]] # NoResult
       /\ \/ ~result[activeQueries[k]].resultSets.present
          \/ index >= Len(result[activeQueries[k]].resultSets.sets)

\* The window asked for ends past the last row of the result set.
PastLastRow(k, index, startRow, count) ==
    /\ activeQueries[k] # NoHandle
    /\ result[activeQueries[k]] # NoResult
    /\ result[activeQueries[k]].resultSets.present
    /\ index < Len(result[activeQueries[k]].resultSets.sets)
    /\ startRow + count
          > Len(result[activeQueries[k]].resultSets.sets[index + 1].rows)

\* C33: getQueryRows and saveResults throw to their caller when the URI
\* has no query, the result-set index is past the last set or the row
\* window ends past the last row; a call that throws leaves the connection
\* registry, the active-query registry and every execution as they were.
C33_FailingReadsChangeNothing ==
    [][/\ (ServedStep /\ ~returned'.ok) \/ SaveThrowsStep
              => UNCHANGED <<connVars, providerVars, runnerVars>>
       /\ ServedStep
              => LET k == request'.ownerUri
                 IN  (\/ NothingToServe(k, request'.index)
                      \/ PastLastRow(k, request'.index, request'.startRow,
                                     request'.count))
                         => ~returned'.ok
       /\ (sv.pc = "none" /\ sv'.pc # "none")
              => (NothingToServe(sv'.request.ownerUri,
                                 sv'.request.resultSetIndex)
                     => sv'.pc = "threw")]_vars

C33_Witness ==
    /\ request.op = "getQueryRows"
    /\ request.ownerUri = "uriB"
    /\ ~returned.ok
    /\ sv.pc = "threw"
    /\ sv.request.resultSetIndex = 2
    /\ sv.request.ownerUri = "uriA"
    /\ pc["r2"] \in {"submit", "poll"}

\* Everything runQuery has notified for the run of runner h, in order.
RunEventsOf(h) ==
    IF owner[h] = NoKey THEN <<>>
    ELSE SelectSeq(events[owner[h]], LAMBDA e : e.runner = h)

\* C34: a run that completed without being cancelled has notified
\* batch-start, then the messages of the result in order, then one
\* result-set-available per result set in the server's order with ids from
\* zero, then batch-complete, then query-complete, and nothing after it.
C34_NotificationOrder ==
    \A h \in Handles :
        (pc[h] = "done" /\ owner[h] # NoKey
                        /\ cancelledAt[h] \notin {"submit", "poll"})
            => LET messages == result[h].messages
                   sets == IF result[h].resultSets.present
                           THEN result[h].resultSets.sets ELSE <<>>
               IN  RunEventsOf(h) =
                      << [type |-> "batchStart", runner |-> h] >>
                      \o [i \in 1..Len(messages) |->
                            [type |-> "message", runner |-> h,
                             isError |-> FALSE, message |-> messages[i]]]
                      \o [i \in 1..Len(sets) |->
                            [type |-> "resultSetAvailable", runner |-> h,
                             id |-> i - 1, rowCount |-> Len(sets[i].rows)]]
                      \o << [type |-> "batchComplete", runner |-> h,
                             hasError |-> FALSE],
                            [type |-> "queryComplete", runner |-> h,
                             batches |-> 1] >>

C34_Witness ==
    /\ pc["r1"] = "done"
    /\ owner["r1"] = "uriA"
    /\ cancelledAt["r1"] = "never"
    /\ Len(result["r1"].messages) = 1
    /\ Len(result["r1"].resultSets.sets) = 2
    /\ Len(RunEventsOf("r1")) = 6
    /\ owner["r2"] = "uriA"
    /\ pc["r2"] = "done"

\* C35: when connect() fires connection-complete without an error for a
\* URI, getConnectionApi of that URI returns a Session at that moment,
\* whatever disconnect, cancelConnect, renameUri or another connect did
\* while the call was waiting.
C35_SessionAtNotification ==
    [][Len(connEvents') > Len(connEvents)
          => LET e == connEvents'[Len(connEvents')]
             IN  e.errorMessage = ""
                    => /\ connections'[e.ownerUri] # NoConn
                       /\ connApi'[connections'[e.ownerUri]] # NoSession]_vars

\* C36: a connect() call whose Connection was cancelled by cancelConnect
\* while it awaited the server ends returning false: it stores no Session
\* and fires no connection-complete, whether the server then accepts or
\* refuses.
C36_CancelledConnectSilent ==
    [][\A c \in Conns :
          (connCancelled[c] /\ ~ConnectEnded(c) /\ ConnectEnded(c)')
              => /\ connPc'[c] = "cancelled"
                 /\ connApi'[c] = NoSession
                 /\ connEvents' = connEvents]_vars

\* C37: when result-set-available notifications are fired for a URI, the
\* query registered as active for the URI is the one they announce, and
\* getQueryRows for the URI, the announced set and all its announced rows
\* succeeds, whatever runQuery, cancelQuery or disposeQuery did while the
\* query ran.
C37_AnnouncedResultsServed ==
    [][\A k \in Keys :
          \A i \in (Len(events[k]) + 1)..Len(events'[k]) :
              LET e == events'[k][i]
                  h == activeQueries'[k]
              IN  e.type = "resultSetAvailable"
                     => /\ h = e.runner
                        /\ getResultSet(result'[h], e.id, 0, e.rowCount).ok]_vars

\* C38: an execution cancelled before its submit response arrived, whose
\* submit response then assigned the identifier and left the query running
\* on the server, has sent a DELETE Sql/Cancel request carrying that
\* identifier by the time it ends.
C38_EarlyCancelReachesServer ==
    \A h \in Handles :
        (cancelledAt[h] = "submit" /\ identifier[h] # NoId
                                   /\ pollsIssued[h] > 0
                                   /\ pc[h] \in {"done", "failed"})
            => \E i \in 1..Len(cancelSent[h]) :
                  cancelSent[h][i] = CancelRequest(identifier[h])

\* C39: on a CSV serializer called directly, writeRow with no file open
\* writes nothing, close with no file open changes nothing, and every file
\* handle an open obtained is either the one the serializer holds or has
\* been released, once: none is left open when a close has resolved.
C39_HandleReleasedOnce ==
    /\ [](ser.kind = "csv"
             => ser.handles = IF ser.stream THEN 1 ELSE 0)
    /\ [][(ser.kind = "csv" /\ ser.phase = "idle" /\ ~ser.stream)
             => /\ Len(ser'.rowCalls) > Len(ser.rowCalls)
                      => [ser' EXCEPT !.rowCalls = ser.rowCalls,
                                      !.calls = ser.calls] = ser
                /\ ser'.closeCalls > ser.closeCalls
                      => [ser' EXCEPT !.closeCalls = ser.closeCalls,
                                      !.calls = ser.calls] = ser]_vars


\* The characters of a text.
RECURSIVE CharsOf(_)
CharsOf(text) ==
    IF text = "" THEN <<>>
    ELSE <<SubSeq(text, 1, 1)>> \o CharsOf(SubSeq(text, 2, Len(text)))

\* C40: for every non-negative whole number of milliseconds ms,
\* toElapsedString(ms) has the shape HH:MM:SS.mmm with hours of at least
\* two digits (a leading zero only to reach two), minutes and seconds in
\* 0..59, milliseconds in 0..999, and the four fields add up to ms.
C40_ElapsedString ==
    call.fn = "toElapsedString"
        => LET chars == CharsOf(output)
               hlen == Len(chars) - 10
               hh == SubSeq(chars, 1, hlen)
               mm == SubSeq(chars, hlen + 2, hlen + 3)
               ss == SubSeq(chars, hlen + 5, hlen + 6)
               mmm == SubSeq(chars, hlen + 8, hlen + 10)
           IN  /\ hlen >= 2
               /\ chars[hlen + 1] = ":"
               /\ chars[hlen + 4] = ":"
               /\ chars[hlen + 7] = "."
               /\ AllDigits(hh \o mm \o ss \o mmm)
               /\ hlen > 2 => hh[1] # "0"
               /\ NumberOf(mm) \in 0..59
               /\ NumberOf(ss) \in 0..59
               /\ NumberOf(mmm) \in 0..999
               /\ NumberOf(hh) * 3600000 + NumberOf(mm) * 60000
                      + NumberOf(ss) * 1000 + NumberOf(mmm) = call.ms

\* A duration of more than a hundred hours with every field non-zero was
\* formatted.
C40_Witness ==
    /\ call.fn = "toElapsedString"
    /\ call.ms = ((100 * 60 + 59) * 60 + 59) * 1000 + 999
    /\ output = "100:59:59.999"

=============================================================================
